---------------------------- MODULE Spec2Model ----------------------------
(***************************************************************************)
(* Session and command arbitration of the Command Board backend            *)
(* (functions/index.js, version 3.1.0).                                    *)
(*                                                                         *)
(* The Firestore collections "sessions", "incidents" and "commandRequests" *)
(* are functions from document ids to documents; a document exists iff its *)
(* id is in the DOMAIN of the collection.  Every API handler is one action *)
(* that runs from the request to the response without interleaving (the    *)
(* "completed, non-overlapping calls" reading).  The response of a handler *)
(* is the value of its ...Result operator in the state the call is made    *)
(* in; a call that is answered with an error writes nothing and is a       *)
(* stuttering step.  The handlers that read and write outside a            *)
(* transaction are modelled a second time await by await (section          *)
(* "Handlers step by step"), for the runs in which calls overlap.  Two     *)
(* pieces of the client are modelled as well: the heartbeat loop of app.js *)
(* and the selection panel of command-board.js.  Time is counted in        *)
(* seconds (the code's millisecond values divided by 1000).                *)
(***************************************************************************)
EXTENDS Integers, FiniteSets, Sequences, TLC

(***************************************************************************)
(* Bounds of the model.                                                    *)
(***************************************************************************)
MaxSessionIds == 3
MaxIncidents == 2
MaxRequests == 2
MaxSweepSessionIds == 4
MaxLogEntries == 3
MaxCalls == 2
MaxVisibilityChanges == 3

(***************************************************************************)
(* Users, tenants and their configuration (the "users" and "customers"     *)
(* documents, which no modelled handler writes).                           *)
(***************************************************************************)
Users == {"u1", "u2", "u3"}
Tenants == {"t1", "t2"}
NoUser == "null"
NullId == 0

\* users/{uid}.customerId as resolved by getAuthContextFromIdToken
UserCustomer == [u \in Users |-> IF u = "u3" THEN "t2" ELSE "t1"]

\* users/{uid}.planLevel as resolved by getAuthContextFromIdToken
\* (userData.planLevel || "Basic": u3 has none set)
UserPlan == [u \in Users |-> IF u = "u2" THEN "Pro" ELSE "Basic"]

\* users/{uid}.adminCode: u1 is the administrator of tenant t1
UserAdminCode == [u \in Users |-> IF u = "u1" THEN "code-1" ELSE "none"]
AdminCodes == {"code-1", "wrong"}

\* customers/{customerId}: t2 leaves maxTotalSessions unset (0), so the
\* handler's "|| 1" default applies to it, and holds two command licenses
Customers ==
  [t \in Tenants |->
     IF t = "t1" THEN [maxTotalSessions |-> 2, maxCommandLicenses |-> 1]
                 ELSE [maxTotalSessions |-> 0, maxCommandLicenses |-> 2]]

\* JavaScript "x || 1" on a number
OrOne(x) == IF x = 0 THEN 1 ELSE x

maxTotalSessions(t) == OrOne(Customers[t].maxTotalSessions)
maxCommandLicenses(t) == OrOne(Customers[t].maxCommandLicenses)

(***************************************************************************)
(* Thresholds, in seconds.                                                 *)
(***************************************************************************)
fifteenMinutes == 15 * 60
twoHours == 2 * 60 * 60
sixtyDays == 60 * 24 * 60 * 60
DailyDeleteLimit == 400

\* The instants at which the clock is observed.  Seen from the third one,
\* the first is older than two hours and the second older than fifteen
\* minutes only; seen from the last one, all others are older than sixty days.
Timeline == <<0, twoHours - fifteenMinutes, twoHours + 1,
              twoHours + sixtyDays + 2>>

\* The page as initializeApp finds it: visible, signed in, no heartbeat
\* timer (appState.sessionHeartbeatInterval is null), no timer running, no
\* manageHeartbeat invocation waiting for user.getIdToken(true)
\* The incident selection panel of the command board (command-board.js) as
\* last rendered: whose page it is, the session the page holds, the selected
\* incident, and the two buttons.  No incident is selected at first.
NoBoard ==
  [uid |-> NoUser, sessionId |-> NullId, incidentId |-> NullId,
   textContent |-> "", disabled |-> TRUE, viewOnlyBtn |-> FALSE]

\* "started" is set once initializeApp has attached the listeners,
\* "timersSet" counts the setInterval calls (the handle it returns) and
\* "changes" the visibility changes so far.
ClientInit ==
  [visible |-> TRUE, signedIn |-> TRUE, started |-> FALSE,
   sessionHeartbeatInterval |-> NullId, timers |-> {}, timersSet |-> 0,
   refreshing |-> 0, changes |-> 0, board |-> NoBoard]

VARIABLES
  sessions,         \* collection "sessions":        id -> {uid, customerId, lastActive}
  incidents,        \* collection "incidents":       id -> {customerId, status, commanderUid, commanderSessionId}
  commandRequests,  \* collection "commandRequests": id -> request document
  issued,           \* issued[s] is the user to whom session id s was handed out
  clock,            \* position of the server clock on the Timeline
  incidentLog,      \* collection "incidentLog", in order of writing (recorded
                    \* by the ...Logged actions; the others do not observe it)
  calls,            \* handler invocations in flight between two of their awaits:
                    \* call id -> {op, uid, pc and what the call has read so far}
  client            \* the browser page of user u1 holding session 1 (app.js):
                    \* visibility, sign-in, heartbeat timer handle, live timers

vars == <<sessions, incidents, commandRequests, issued, clock, incidentLog, calls, client>>

\* new Date()
now == Timeline[clock]

\* the next auto-generated document id of "sessions" (ids are never reused)
nextSessionId == Len(issued) + 1

\* A client presents the sessionId it holds in sessionStorage: an id that
\* createSession returned to this user, whether or not the document still exists
IssuedTo(u) == {s \in 1..Len(issued) : issued[s] = u}

Init ==
  /\ sessions = << >>
  /\ incidents = << >>
  /\ commandRequests = << >>
  /\ issued = << >>
  /\ clock = 1
  /\ incidentLog = << >>
  /\ calls = << >>
  /\ client = ClientInit

(***************************************************************************)
(* Queries shared by the handlers.                                         *)
(***************************************************************************)
\* incidents.where(customerId == t).where(status == "Active").where(commanderUid != null)
CommandingIncidents(incs, t) ==
  {i \in DOMAIN incs : /\ incs[i].customerId = t
                       /\ incs[i].status = "Active"
                       /\ incs[i].commanderUid # NoUser}

\* sessions.where(customerId == t)
TenantSessions(sess, t) == {s \in DOMAIN sess : sess[s].customerId = t}

\* sessionDoc.exists && sessionDoc.data().uid === uid
SessionOwnedBy(s, u) == s \in DOMAIN sessions /\ sessions[s].uid = u

\* a collection with one document added or overwritten
Put(coll, id, doc) ==
  [k \in DOMAIN coll \cup {id} |-> IF k = id THEN doc ELSE coll[k]]

\* a collection with some documents deleted (deleting a missing one is a no-op)
Delete(coll, ids) == [k \in DOMAIN coll \ ids |-> coll[k]]

(***************************************************************************)
(* Session Manager                                                         *)
(***************************************************************************)
\* CHECK #1: is there an open slot?
OpenSlot(t) == Cardinality(TenantSessions(sessions, t)) < maxTotalSessions(t)

\* CHECK #2: the Active incidents of the tenant commanded by the caller
commanderSnapshot(u) ==
  {i \in DOMAIN incidents : /\ incidents[i].customerId = UserCustomer[u]
                            /\ incidents[i].commanderUid = u
                            /\ incidents[i].status = "Active"}

\* CHECK #3: the sessions recorded as commanding an Active incident of the tenant
commandingSessionIds(t) ==
  {incidents[i].commanderSessionId :
     i \in {j \in DOMAIN incidents : /\ incidents[j].customerId = t
                                     /\ incidents[j].status = "Active"
                                     /\ incidents[j].commanderSessionId # NullId}}

\* a staleness test that forgets which sessions are commanding
BumpCandidateIgnoringCommand(s, t) ==
  sessions[s].lastActive < now - fifteenMinutes

\* CHECK #3: a session may be bumped if it commands nothing and has been
\* inactive for more than fifteen minutes
BumpCandidate(s, t) ==
  /\ s \notin commandingSessionIds(t)
  /\ sessions[s].lastActive < now - fifteenMinutes

\* a bump that takes any stale candidate, not the oldest
anyStaleSession(t) ==
  {s \in TenantSessions(sessions, t) : BumpCandidate(s, t)}

\* CHECK #3: the candidates with the oldest lastActive
oldestStaleSession(t) ==
  LET stale == {s \in TenantSessions(sessions, t) : BumpCandidate(s, t)}
  IN {s \in stale : \A o \in stale : sessions[s].lastActive <= sessions[o].lastActive}

\* createSession without CHECK #2: a commander is treated like anyone else
createSessionDeletesNoReentry(u) ==
  IF OpenSlot(UserCustomer[u]) THEN {{}}
  ELSE {{s} : s \in oldestStaleSession(UserCustomer[u])}

\* The sets of sessions createSession may delete before it adds the new
\* one; no set at all means the hard failure (permission-denied).  The
\* commander query has limit(1): any one matching incident may be docs[0].
createSessionDeletes(u) ==
  LET t == UserCustomer[u]
      general == {{s} : s \in oldestStaleSession(t)}
  IN IF OpenSlot(t) THEN {{}}
     ELSE IF commanderSnapshot(u) = {} THEN general
     ELSE UNION {IF incidents[i].commanderSessionId # NullId
                   THEN {{incidents[i].commanderSessionId}}
                   ELSE general : i \in commanderSnapshot(u)}

createSessionResult(u) ==
  IF createSessionDeletes(u) = {} THEN "permission-denied" ELSE "ok"

createSession(u) ==
  /\ \E deleted \in createSessionDeletes(u) :
       sessions' = Put(Delete(sessions, deleted), nextSessionId,
                       [uid |-> u, customerId |-> UserCustomer[u],
                        lastActive |-> now])
  /\ issued' = Append(issued, u)
  /\ UNCHANGED <<incidents, commandRequests, clock, incidentLog, calls, client>>

\* a heartbeat that checks only that the session exists
sessionHeartbeatResultNoOwnerCheck(u, s) ==
  IF s \notin DOMAIN sessions THEN "not-found" ELSE "ok"

sessionHeartbeatResult(u, s) ==
  IF ~SessionOwnedBy(s, u) THEN "not-found" ELSE "ok"

sessionHeartbeat(u, s) ==
  /\ IF sessionHeartbeatResult(u, s) = "ok"
       THEN sessions' = [sessions EXCEPT ![s].lastActive = now]
       ELSE UNCHANGED sessions
  /\ UNCHANGED <<incidents, commandRequests, issued, clock, incidentLog, calls, client>>

\* a logout that deletes the session whoever owns it
endSessionAnyOwner(u, s) ==
  /\ sessions' = Delete(sessions, {s})
  /\ UNCHANGED <<incidents, commandRequests, issued, clock, incidentLog, calls, client>>

\* checkSessionStatus: the incident documents of the tenant that record the
\* caller as commander (the query has no status filter)
commandingQuery(u) ==
  {i \in DOMAIN incidents : /\ incidents[i].customerId = UserCustomer[u]
                            /\ incidents[i].commanderUid = u}

\* the answer of checkSessionStatus when docs[0] of the query is incident i
checkSessionStatusFor(u, s, i) ==
  IF UserPlan[u] = "Basic" /\ s # incidents[i].commanderSessionId
    THEN "locked_out"
  ELSE IF UserPlan[u] = "Pro" /\ s # incidents[i].commanderSessionId
    THEN "view_only_recommended"
  ELSE "ok"

\* The answers checkSessionStatus can give: the query has limit(1) and no
\* order, so any matching incident may be docs[0].  It writes nothing.
checkSessionStatusResult(u, s) ==
  IF commandingQuery(u) = {} THEN {"ok"}
  ELSE {checkSessionStatusFor(u, s, i) : i \in commandingQuery(u)}

\* endSession answers with success whether or not it deleted anything
endSession(u, s) ==
  /\ IF SessionOwnedBy(s, u)
       THEN sessions' = Delete(sessions, {s})
       ELSE UNCHANGED sessions
  /\ UNCHANGED <<incidents, commandRequests, issued, clock, incidentLog, calls, client>>

(***************************************************************************)
(* Command Arbiter                                                         *)
(***************************************************************************)
\* a license gate without the exemption for the caller's own incident
TakeLicenseDeniedNoExemption(u, i) ==
  Cardinality(CommandingIncidents(incidents, UserCustomer[u]))
    >= maxCommandLicenses(UserCustomer[u])

\* Gatekeeper Check #1 of takeIncidentCommand: all licenses are in use and
\* the target incident is not already commanded by the caller
TakeLicenseDenied(u, i) ==
  /\ Cardinality(CommandingIncidents(incidents, UserCustomer[u]))
       >= maxCommandLicenses(UserCustomer[u])
  /\ incidents[i].commanderUid # u

\* Gatekeeper Check #2 of takeIncidentCommand: the caller is the recorded
\* commander of another incident document (the query has no status filter)
TakeUserLimitDenied(u, i) ==
  \E j \in DOMAIN incidents :
    /\ incidents[j].customerId = UserCustomer[u]
    /\ incidents[j].commanderUid = u
    /\ j # i

takeIncidentCommandResult(u, i, s) ==
  IF ~SessionOwnedBy(s, u) THEN "permission-denied"
  ELSE IF i \notin DOMAIN incidents \/ incidents[i].customerId # UserCustomer[u]
    THEN "error"
  ELSE IF TakeLicenseDenied(u, i) THEN "permission-denied"
  ELSE IF TakeUserLimitDenied(u, i) THEN "permission-denied"
  ELSE "ok"

\* a take that also withdraws the requests pending for the incident
takeIncidentCommandCancelsRequests(u, i, s) ==
  /\ IF takeIncidentCommandResult(u, i, s) = "ok"
       THEN /\ incidents' = [incidents EXCEPT ![i].commanderUid = u,
                                                ![i].commanderSessionId = s]
            /\ commandRequests' =
                 [r \in DOMAIN commandRequests |->
                    IF /\ commandRequests[r].incidentId = i
                       /\ commandRequests[r].status = "pending"
                      THEN [commandRequests[r] EXCEPT !.status = "denied"]
                      ELSE commandRequests[r]]
       ELSE UNCHANGED <<incidents, commandRequests>>
  /\ UNCHANGED <<sessions, issued, clock, incidentLog, calls, client>>

takeIncidentCommand(u, i, s) ==
  /\ IF takeIncidentCommandResult(u, i, s) = "ok"
       THEN incidents' = [incidents EXCEPT ![i].commanderUid = u,
                                           ![i].commanderSessionId = s]
       ELSE UNCHANGED incidents
  /\ UNCHANGED <<sessions, commandRequests, issued, clock, incidentLog, calls, client>>

\* Check #1 of startNewIncident
StartLicenseDenied(u) ==
  Cardinality(CommandingIncidents(incidents, UserCustomer[u]))
    >= maxCommandLicenses(UserCustomer[u])

\* Check #2 of startNewIncident
StartUserLimitDenied(u) ==
  \E j \in DOMAIN incidents :
    /\ incidents[j].customerId = UserCustomer[u]
    /\ incidents[j].commanderUid = u
    /\ incidents[j].status = "Active"

\* the gatekeeper with Check #1 only
startNewIncidentResultLicenseOnly(u, s) ==
  IF StartLicenseDenied(u) THEN "permission-denied" ELSE "ok"

startNewIncidentResult(u, s) ==
  IF StartLicenseDenied(u) THEN "permission-denied"
  ELSE IF StartUserLimitDenied(u) THEN "failed-precondition"
  ELSE "ok"

\* the incident ids an existing document of any collection carries
KnownIncidentIds ==
  DOMAIN incidents
    \cup {commandRequests[r].incidentId : r \in DOMAIN commandRequests}
    \cup {incidentLog[k].incidentId : k \in 1..Len(incidentLog)}

\* the next auto-generated document id of "incidents": auto ids are unique,
\* so an id that any document still carries is never handed out again
nextIncidentId ==
  IF KnownIncidentIds = {} THEN 1
  ELSE (CHOOSE m \in KnownIncidentIds : \A k \in KnownIncidentIds : k <= m) + 1

startNewIncident(u, s) ==
  /\ IF startNewIncidentResult(u, s) = "ok"
       THEN /\ nextIncidentId <= MaxIncidents
            /\ incidents' = Put(incidents, nextIncidentId,
                                [customerId |-> UserCustomer[u],
                                 status |-> "Active",
                                 commanderUid |-> u,
                                 commanderSessionId |-> s])
       ELSE UNCHANGED incidents
  /\ UNCHANGED <<sessions, commandRequests, issued, clock, incidentLog, calls, client>>

closeIncidentResult(u, i) ==
  IF i \notin DOMAIN incidents THEN "error"
  ELSE IF incidents[i].customerId # UserCustomer[u] THEN "permission-denied"
  ELSE IF incidents[i].commanderUid # u THEN "permission-denied"
  ELSE "ok"

\* a close that marks the incident Closed and keeps the commander fields
closeIncidentStatusOnly(u, i) ==
  /\ IF closeIncidentResult(u, i) = "ok"
       THEN incidents' = [incidents EXCEPT ![i].status = "Closed"]
       ELSE UNCHANGED incidents
  /\ UNCHANGED <<sessions, commandRequests, issued, clock, incidentLog, calls, client>>

closeIncident(u, i) ==
  /\ IF closeIncidentResult(u, i) = "ok"
       THEN incidents' = [incidents EXCEPT ![i].status = "Closed",
                                           ![i].commanderUid = NoUser,
                                           ![i].commanderSessionId = NullId]
       ELSE UNCHANGED incidents
  /\ UNCHANGED <<sessions, commandRequests, issued, clock, incidentLog, calls, client>>

\* a check that also wants the presented session to be a live one of the caller
reestablishCommandResultSessionChecked(u, i, s) ==
  IF i \notin DOMAIN incidents THEN "error"
  ELSE IF incidents[i].commanderUid # u \/ ~SessionOwnedBy(s, u)
    THEN "permission-denied"
  ELSE "ok"

reestablishCommandResult(u, i, s) ==
  IF i \notin DOMAIN incidents THEN "error"
  ELSE IF incidents[i].commanderUid # u THEN "permission-denied"
  ELSE "ok"

reestablishCommand(u, i, s) ==
  /\ IF reestablishCommandResult(u, i, s) = "ok"
       THEN incidents' = [incidents EXCEPT ![i].commanderSessionId = s]
       ELSE UNCHANGED incidents
  /\ UNCHANGED <<sessions, commandRequests, issued, clock, incidentLog, calls, client>>

(***************************************************************************)
(* Handoff Workflow                                                        *)
(***************************************************************************)
\* commandRequests.where(incidentId == i).where(status == "pending")
PendingRequests(reqs, i) ==
  {r \in DOMAIN reqs : reqs[r].incidentId = i /\ reqs[r].status = "pending"}

\* the handler without its query for a pending request
requestIncidentCommandResultNoPendingCheck(u, i, s) ==
  IF i \notin DOMAIN incidents THEN "error"
  ELSE IF incidents[i].customerId # UserCustomer[u] THEN "permission-denied"
  ELSE IF incidents[i].commanderUid = NoUser THEN "failed-precondition"
  ELSE IF incidents[i].commanderUid = u THEN "failed-precondition"
  ELSE "ok"

requestIncidentCommandResult(u, i, s) ==
  IF i \notin DOMAIN incidents THEN "error"
  ELSE IF incidents[i].customerId # UserCustomer[u] THEN "permission-denied"
  ELSE IF incidents[i].commanderUid = NoUser THEN "failed-precondition"
  ELSE IF incidents[i].commanderUid = u THEN "failed-precondition"
  ELSE IF PendingRequests(commandRequests, i) # {} THEN "already-exists"
  ELSE "ok"

\* the next auto-generated document id of "commandRequests"
nextRequestId == Cardinality(DOMAIN commandRequests) + 1

\* a request that records the requester in place of the current commander
requestIncidentCommandRecordsRequester(u, i, s) ==
  /\ IF requestIncidentCommandResult(u, i, s) = "ok"
       THEN /\ nextRequestId <= MaxRequests
            /\ commandRequests' =
                 Put(commandRequests, nextRequestId,
                     [incidentId |-> i,
                      requesterUid |-> u,
                      requesterSessionId |-> s,
                      currentCommanderUid |-> u,
                      status |-> "pending",
                      customerId |-> UserCustomer[u]])
       ELSE UNCHANGED commandRequests
  /\ UNCHANGED <<sessions, incidents, issued, clock, incidentLog, calls, client>>

requestIncidentCommand(u, i, s) ==
  /\ IF requestIncidentCommandResult(u, i, s) = "ok"
       THEN /\ nextRequestId <= MaxRequests
            /\ commandRequests' =
                 Put(commandRequests, nextRequestId,
                     [incidentId |-> i,
                      requesterUid |-> u,
                      requesterSessionId |-> s,
                      currentCommanderUid |-> incidents[i].commanderUid,
                      status |-> "pending",
                      customerId |-> UserCustomer[u]])
       ELSE UNCHANGED commandRequests
  /\ UNCHANGED <<sessions, incidents, issued, clock, incidentLog, calls, client>>

\* a security check that also lets the requester resolve the request
IsRecordedCommanderOrRequester(r, u) ==
  \/ commandRequests[r].currentCommanderUid = u
  \/ commandRequests[r].requesterUid = u

\* Security check: only the commander recorded in the request may resolve it
IsRecordedCommander(r, u) == commandRequests[r].currentCommanderUid = u

approveCommandRequestResult(u, r) ==
  IF r \notin DOMAIN commandRequests THEN "error"
  ELSE IF ~IsRecordedCommander(r, u) THEN "permission-denied"
  ELSE IF commandRequests[r].requesterSessionId = NullId THEN "error"
  ELSE IF commandRequests[r].incidentId \notin DOMAIN incidents THEN "error"
  ELSE "ok"

\* a transfer that keeps the previous commander's session pointer
ApprovedIncidentUidOnly(inc, req) == [inc EXCEPT !.commanderUid = req.requesterUid]

\* the two transaction.update calls of approveCommandRequest
ApprovedIncident(inc, req) ==
  [inc EXCEPT !.commanderUid = req.requesterUid,
              !.commanderSessionId = req.requesterSessionId]

approveCommandRequest(u, r) ==
  /\ IF approveCommandRequestResult(u, r) = "ok"
       THEN /\ incidents' =
                 [incidents EXCEPT ![commandRequests[r].incidentId] =
                    ApprovedIncident(@, commandRequests[r])]
            /\ commandRequests' = [commandRequests EXCEPT ![r].status = "approved"]
       ELSE UNCHANGED <<incidents, commandRequests>>
  /\ UNCHANGED <<sessions, issued, clock, incidentLog, calls, client>>

\* a deny handler without its authorization check
denyCommandRequestResultNoAuth(u, r) ==
  IF r \notin DOMAIN commandRequests THEN "error" ELSE "ok"

denyCommandRequestResult(u, r) ==
  IF r \notin DOMAIN commandRequests THEN "error"
  ELSE IF ~IsRecordedCommander(r, u) THEN "permission-denied"
  ELSE "ok"

denyCommandRequest(u, r) ==
  /\ IF denyCommandRequestResult(u, r) = "ok"
       THEN commandRequests' = [commandRequests EXCEPT ![r].status = "denied"]
       ELSE UNCHANGED commandRequests
  /\ UNCHANGED <<sessions, incidents, issued, clock, incidentLog, calls, client>>

(***************************************************************************)
(* Audit log and incident deletion                                         *)
(***************************************************************************)
\* db.collection("incidentLog").add(...): written at once, outside any
\* transaction the caller may be running
logIncidentAction(log, eventType, incidentId) ==
  Append(log, [eventType |-> eventType, incidentId |-> incidentId])

deleteIncidentResult(u, i, adminCode) ==
  IF UserAdminCode[u] # adminCode THEN "permission-denied"
  ELSE IF i \notin DOMAIN incidents THEN "error"
  ELSE IF incidents[i].customerId # UserCustomer[u] THEN "permission-denied"
  ELSE IF incidents[i].status # "Closed" THEN "error"
  ELSE "ok"

deleteIncident(u, i, adminCode) ==
  /\ IF deleteIncidentResult(u, i, adminCode) = "ok"
       THEN incidents' = Delete(incidents, {i})
       ELSE UNCHANGED incidents
  /\ UNCHANGED <<sessions, commandRequests, issued, clock, incidentLog, calls, client>>

\* requestIncidentCommand with its COMMAND_REQUEST log entry, written after
\* the request document
requestIncidentCommandLogged(u, i, s) ==
  /\ requestIncidentCommandResult(u, i, s) = "ok"
  /\ nextRequestId <= MaxRequests
  /\ commandRequests' =
       Put(commandRequests, nextRequestId,
           [incidentId |-> i,
            requesterUid |-> u,
            requesterSessionId |-> s,
            currentCommanderUid |-> incidents[i].commanderUid,
            status |-> "pending",
            customerId |-> UserCustomer[u]])
  /\ incidentLog' = logIncidentAction(incidentLog, "COMMAND_REQUEST", i)
  /\ UNCHANGED <<sessions, incidents, issued, clock, calls, client>>

\* The transaction callback of approveCommandRequest gets as far as the log
\* write: the request exists, the caller is its recorded commander and a
\* requester session is recorded
approveCallbackReachesLog(u, r) ==
  /\ r \in DOMAIN commandRequests
  /\ IsRecordedCommander(r, u)
  /\ commandRequests[r].requesterSessionId # NullId

\* approveCommandRequest with its COMMAND_APPROVED log entry.  The two
\* transaction.update calls are buffered, the log entry is added while the
\* callback runs, and the commit then fails as a whole when the incident
\* document to update does not exist.
approveCommandRequestLogged(u, r) ==
  /\ approveCallbackReachesLog(u, r)
  /\ incidentLog' = logIncidentAction(incidentLog, "COMMAND_APPROVED",
                                      commandRequests[r].incidentId)
  /\ IF commandRequests[r].incidentId \in DOMAIN incidents
       THEN /\ incidents' =
                 [incidents EXCEPT ![commandRequests[r].incidentId] =
                    ApprovedIncident(@, commandRequests[r])]
            /\ commandRequests' = [commandRequests EXCEPT ![r].status = "approved"]
       ELSE UNCHANGED <<incidents, commandRequests>>
  /\ UNCHANGED <<sessions, issued, clock, calls, client>>

\* reestablishCommand with its COMMAND_REESTABLISHED log entry: both checks
\* of the callback come before the log write
reestablishCommandLogged(u, i, s) ==
  /\ reestablishCommandResult(u, i, s) = "ok"
  /\ incidents' = [incidents EXCEPT ![i].commanderSessionId = s]
  /\ incidentLog' = logIncidentAction(incidentLog, "COMMAND_REESTABLISHED", i)
  /\ UNCHANGED <<sessions, commandRequests, issued, clock, calls, client>>

(***************************************************************************)
(* Liveness Reaper                                                         *)
(***************************************************************************)
\* sessions.where(lastActive < now - two hours), over all tenants
StaleSessions == {s \in DOMAIN sessions : sessions[s].lastActive < now - twoHours}

\* incidents.where(status == "Active").where(commanderSessionId in staleSessionIds)
LockedIncidents ==
  {i \in DOMAIN incidents : /\ incidents[i].status = "Active"
                            /\ incidents[i].commanderSessionId \in StaleSessions}

\* a release that forgets the session pointer
ReleasedIncidentUidOnly(inc) == [inc EXCEPT !.commanderUid = NoUser]

\* the batch.update of one locked incident
ReleasedIncident(inc) ==
  [inc EXCEPT !.commanderUid = NoUser, !.commanderSessionId = NullId]

\* a sweep that nulls commanderUid only: the session pointer and the stale
\* session both stay
cleanupstalecommandsessionsUidOnly ==
  /\ IF StaleSessions = {} \/ LockedIncidents = {}
       THEN UNCHANGED <<sessions, incidents>>
       ELSE /\ incidents' =
                 [i \in DOMAIN incidents |->
                    IF i \in LockedIncidents
                      THEN [incidents[i] EXCEPT !.commanderUid = NoUser]
                      ELSE incidents[i]]
            /\ sessions' = sessions
  /\ UNCHANGED <<commandRequests, issued, clock, incidentLog, calls, client>>

cleanupstalecommandsessions ==
  /\ IF StaleSessions = {} \/ LockedIncidents = {}
       THEN UNCHANGED <<sessions, incidents>>
       ELSE /\ incidents' =
                 [i \in DOMAIN incidents |->
                    IF i \in LockedIncidents THEN ReleasedIncident(incidents[i])
                                             ELSE incidents[i]]
            /\ sessions' = Delete(sessions,
                 {incidents[i].commanderSessionId : i \in LockedIncidents})
  /\ UNCHANGED <<commandRequests, issued, clock, incidentLog, calls, client>>

\* a janitor that spares the sessions recorded as commanding an incident
OldSessionsNotCommanding ==
  {s \in DOMAIN sessions :
     /\ sessions[s].lastActive < now - sixtyDays
     /\ \A i \in DOMAIN incidents : incidents[i].commanderSessionId # s}

\* sessions.where(lastActive < now - sixty days)
OldSessions == {s \in DOMAIN sessions : sessions[s].lastActive < now - sixtyDays}

\* .limit(400) of the query, which is ordered by lastActive: the possible snapshots
OldSessionsSnapshots ==
  {D \in SUBSET OldSessions :
     /\ Cardinality(D) = IF Cardinality(OldSessions) < DailyDeleteLimit
                           THEN Cardinality(OldSessions) ELSE DailyDeleteLimit
     /\ \A d \in D, o \in OldSessions \ D :
          sessions[d].lastActive <= sessions[o].lastActive}

cleanupoldsessions ==
  /\ IF OldSessions = {}
       THEN UNCHANGED sessions
       ELSE \E D \in OldSessionsSnapshots : sessions' = Delete(sessions, D)
  /\ UNCHANGED <<incidents, commandRequests, issued, clock, incidentLog, calls, client>>

(***************************************************************************)
(* The clock                                                               *)
(***************************************************************************)
Tick(horizon) ==
  /\ clock < horizon
  /\ clock' = clock + 1
  /\ UNCHANGED <<sessions, incidents, commandRequests, issued, incidentLog, calls, client>>

(***************************************************************************)
(* Handlers step by step.  A handler that is not wrapped in a transaction  *)
(* gives way to other invocations at each of its awaits: an invocation in  *)
(* flight is an entry of "calls" that remembers what it has read, and one  *)
(* action takes it from one await to the next.  An invocation that throws  *)
(* leaves "calls" without writing.  The customers document never changes,  *)
(* so its read is taken together with the read that follows it.  A handler *)
(* that runs inside db.runTransaction stays a single action.               *)
(***************************************************************************)
FreeCallIds == (1..MaxCalls) \ DOMAIN calls

\* the id under which the next invocation is kept
nextCallId == CHOOSE c \in FreeCallIds : \A d \in FreeCallIds : c <= d

AtPc(c, op, pc) ==
  /\ c \in DOMAIN calls
  /\ calls[c].op = op
  /\ calls[c].pc = pc

\* startNewIncident, Check #1: commandingQuery.get() and its test
startNewIncidentCheck1(u, s) ==
  /\ FreeCallIds # {}
  /\ ~StartLicenseDenied(u)
  /\ calls' = Put(calls, nextCallId,
                  [op |-> "startNewIncident", uid |-> u, sessionId |-> s,
                   pc |-> "check2"])
  /\ UNCHANGED <<sessions, incidents, commandRequests, issued, clock,
                 incidentLog, client>>

\* startNewIncident, Check #2: userIncidentsQuery.get() and its test
startNewIncidentCheck2(c) ==
  /\ AtPc(c, "startNewIncident", "check2")
  /\ calls' = IF StartUserLimitDenied(calls[c].uid)
                THEN Delete(calls, {c})
                ELSE [calls EXCEPT ![c].pc = "add"]
  /\ UNCHANGED <<sessions, incidents, commandRequests, issued, clock,
                 incidentLog, client>>

\* startNewIncident: db.collection("incidents").add(newIncidentData)
startNewIncidentAdd(c) ==
  /\ AtPc(c, "startNewIncident", "add")
  /\ nextIncidentId <= MaxIncidents
  /\ incidents' = Put(incidents, nextIncidentId,
                      [customerId |-> UserCustomer[calls[c].uid],
                       status |-> "Active",
                       commanderUid |-> calls[c].uid,
                       commanderSessionId |-> calls[c].sessionId])
  /\ calls' = Delete(calls, {c})
  /\ UNCHANGED <<sessions, commandRequests, issued, clock, incidentLog, client>>

\* createSession invocations in flight (their session is not yet issued)
createSessionCalls == {c \in DOMAIN calls : calls[c].op = "createSession"}

\* createSession: Promise.all of the customer read and the tenant's sessions
\* query, then CHECK #1 on the snapshot just read
createSessionRead(u) ==
  LET t == UserCustomer[u]
      currentSessionsSnapshot == [s \in TenantSessions(sessions, t) |-> sessions[s]]
  IN /\ FreeCallIds # {}
     /\ calls' = Put(calls, nextCallId,
                     [op |-> "createSession", uid |-> u,
                      currentSessionsSnapshot |-> currentSessionsSnapshot,
                      pc |-> IF Cardinality(DOMAIN currentSessionsSnapshot)
                                  < maxTotalSessions(t)
                               THEN "add" ELSE "commanderQuery",
                      openSlot |-> Cardinality(DOMAIN currentSessionsSnapshot)
                                     < maxTotalSessions(t),
                      at |-> now, target |-> NullId])
     /\ UNCHANGED <<sessions, incidents, commandRequests, issued, clock,
                    incidentLog, client>>

\* createSession, CHECK #2: commanderQuery.get() (limit(1): any matching
\* incident may be docs[0]); without a recorded old session the handler goes
\* on to CHECK #3 and takes "now" for it
createSessionCommanderQuery(c) ==
  /\ AtPc(c, "createSession", "commanderQuery")
  /\ \/ /\ commanderSnapshot(calls[c].uid) = {}
        /\ calls' = [calls EXCEPT ![c].pc = "activeCmdQuery", ![c].at = now]
     \/ \E i \in commanderSnapshot(calls[c].uid) :
          calls' = IF incidents[i].commanderSessionId # NullId
                     THEN [calls EXCEPT ![c].pc = "delete", ![c].at = now,
                                        ![c].target = incidents[i].commanderSessionId]
                     ELSE [calls EXCEPT ![c].pc = "activeCmdQuery", ![c].at = now]
  /\ UNCHANGED <<sessions, incidents, commandRequests, issued, clock,
                 incidentLog, client>>

\* CHECK #3 on the snapshot read at the start: the oldest sessions that
\* command nothing and were inactive for more than fifteen minutes at "at"
oldestStaleInSnapshot(snapshot, commanding, at) ==
  LET stale == {s \in DOMAIN snapshot :
                  /\ s \notin commanding
                  /\ snapshot[s].lastActive < at - fifteenMinutes}
  IN {s \in stale : \A o \in stale : snapshot[s].lastActive <= snapshot[o].lastActive}

\* createSession, CHECK #3 and CHECK #4: the query for the tenant's commanding
\* sessions, the choice of the session to bump, or the hard failure
createSessionActiveCmdQuery(c) ==
  LET candidates ==
        oldestStaleInSnapshot(calls[c].currentSessionsSnapshot,
                              commandingSessionIds(UserCustomer[calls[c].uid]),
                              calls[c].at)
  IN /\ AtPc(c, "createSession", "activeCmdQuery")
     /\ IF candidates = {}
          THEN calls' = Delete(calls, {c})
          ELSE \E s \in candidates :
                 calls' = [calls EXCEPT ![c].pc = "delete", ![c].target = s]
     /\ UNCHANGED <<sessions, incidents, commandRequests, issued, clock,
                    incidentLog, client>>

\* createSession: sessionsRef.doc(id).delete() of the session to bump
createSessionDelete(c) ==
  /\ AtPc(c, "createSession", "delete")
  /\ sessions' = Delete(sessions, {calls[c].target})
  /\ calls' = [calls EXCEPT ![c].pc = "add"]
  /\ UNCHANGED <<incidents, commandRequests, issued, clock, incidentLog, client>>

\* createSession: sessionsRef.add(sessionData)
createSessionAdd(c) ==
  /\ AtPc(c, "createSession", "add")
  /\ sessions' = Put(sessions, nextSessionId,
                     [uid |-> calls[c].uid,
                      customerId |-> UserCustomer[calls[c].uid],
                      lastActive |-> calls[c].at])
  /\ issued' = Append(issued, calls[c].uid)
  /\ calls' = Delete(calls, {c})
  /\ UNCHANGED <<incidents, commandRequests, clock, incidentLog, client>>

\* requestIncidentCommand: getAndVerifyDoc and the two tests on the
\* commander it read, which the request will record
requestIncidentCommandVerify(u, i, s) ==
  /\ FreeCallIds # {}
  /\ i \in DOMAIN incidents
  /\ incidents[i].customerId = UserCustomer[u]
  /\ incidents[i].commanderUid \notin {NoUser, u}
  /\ calls' = Put(calls, nextCallId,
                  [op |-> "requestIncidentCommand", uid |-> u, sessionId |-> s,
                   incidentId |-> i,
                   currentCommanderUid |-> incidents[i].commanderUid,
                   pc |-> "query"])
  /\ UNCHANGED <<sessions, incidents, commandRequests, issued, clock,
                 incidentLog, client>>

\* requestIncidentCommand: existingReqQuery.get() and the already-exists test
requestIncidentCommandQuery(c) ==
  /\ AtPc(c, "requestIncidentCommand", "query")
  /\ calls' = IF PendingRequests(commandRequests, calls[c].incidentId) # {}
                THEN Delete(calls, {c})
                ELSE [calls EXCEPT ![c].pc = "add"]
  /\ UNCHANGED <<sessions, incidents, commandRequests, issued, clock,
                 incidentLog, client>>

\* requestIncidentCommand: db.collection("commandRequests").add(newRequest)
requestIncidentCommandAdd(c) ==
  /\ AtPc(c, "requestIncidentCommand", "add")
  /\ nextRequestId <= MaxRequests
  /\ commandRequests' =
       Put(commandRequests, nextRequestId,
           [incidentId |-> calls[c].incidentId,
            requesterUid |-> calls[c].uid,
            requesterSessionId |-> calls[c].sessionId,
            currentCommanderUid |-> calls[c].currentCommanderUid,
            status |-> "pending",
            customerId |-> UserCustomer[calls[c].uid]])
  /\ calls' = [calls EXCEPT ![c].pc = "log"]
  /\ UNCHANGED <<sessions, incidents, issued, clock, incidentLog, client>>

\* requestIncidentCommand: the COMMAND_REQUEST log entry, then the response
requestIncidentCommandLog(c) ==
  /\ AtPc(c, "requestIncidentCommand", "log")
  /\ incidentLog' = logIncidentAction(incidentLog, "COMMAND_REQUEST",
                                      calls[c].incidentId)
  /\ calls' = Delete(calls, {c})
  /\ UNCHANGED <<sessions, incidents, commandRequests, issued, clock, client>>

\* cleanupstalecommandsessions: staleSessionsQuery.get(); a run that finds
\* no stale session ends here
sweepReadStale ==
  /\ FreeCallIds # {}
  /\ StaleSessions # {}
  /\ calls' = Put(calls, nextCallId,
                  [op |-> "cleanupstalecommandsessions",
                   staleSessionIds |-> StaleSessions,
                   lockedIncidentsSnapshot |-> << >>,
                   pc |-> "lockedQuery"])
  /\ UNCHANGED <<sessions, incidents, commandRequests, issued, clock,
                 incidentLog, client>>

\* cleanupstalecommandsessions: lockedIncidentsQuery.get() with the ids read
\* before; the snapshot keeps each incident's commanderSessionId as read
sweepReadLocked(c) ==
  LET locked == {i \in DOMAIN incidents :
                   /\ incidents[i].status = "Active"
                   /\ incidents[i].commanderSessionId \in calls[c].staleSessionIds}
  IN /\ AtPc(c, "cleanupstalecommandsessions", "lockedQuery")
     /\ calls' = IF locked = {}
                   THEN Delete(calls, {c})
                   ELSE [calls EXCEPT
                           ![c].pc = "commit",
                           ![c].lockedIncidentsSnapshot =
                              [i \in locked |-> incidents[i].commanderSessionId]]
     /\ UNCHANGED <<sessions, incidents, commandRequests, issued, clock,
                    incidentLog, client>>

\* cleanupstalecommandsessions: batch.commit() of the updates and deletes
\* prepared from the snapshot
sweepCommit(c) ==
  /\ AtPc(c, "cleanupstalecommandsessions", "commit")
  /\ incidents' =
       [i \in DOMAIN incidents |->
          IF i \in DOMAIN calls[c].lockedIncidentsSnapshot
            THEN ReleasedIncident(incidents[i])
            ELSE incidents[i]]
  /\ sessions' =
       Delete(sessions, {calls[c].lockedIncidentsSnapshot[i] :
                           i \in DOMAIN calls[c].lockedIncidentsSnapshot})
  /\ calls' = Delete(calls, {c})
  /\ UNCHANGED <<commandRequests, issued, clock, incidentLog, client>>

(***************************************************************************)
(* The client's heartbeat loop (app.js).  The page belongs to u1 and holds *)
(* session 1 in sessionStorage.  JavaScript runs one callback at a time:   *)
(* manageHeartbeat runs without interruption up to its await of            *)
(* user.getIdToken(true) and again from there to its end.                  *)
(***************************************************************************)
ClientUser == "u1"
ClientSessionId == 1

\* manageHeartbeat from its entry to its first await, or to its end when it
\* takes the else branch
manageHeartbeatEnter(cl) ==
  IF ~cl.signedIn THEN cl
  ELSE IF cl.visible
    THEN [cl EXCEPT !.refreshing = @ + 1]
    ELSE IF cl.sessionHeartbeatInterval # NullId
      THEN [cl EXCEPT !.timers = @ \ {cl.sessionHeartbeatInterval},
                      !.sessionHeartbeatInterval = NullId]
      ELSE cl

\* manageHeartbeat after getIdToken has resolved: setInterval unless a
\* handle is already stored
manageHeartbeatResume(cl) ==
  IF cl.sessionHeartbeatInterval = NullId
    THEN [cl EXCEPT !.refreshing = @ - 1,
                    !.timersSet = @ + 1,
                    !.timers = @ \cup {cl.timersSet + 1},
                    !.sessionHeartbeatInterval = cl.timersSet + 1]
    ELSE [cl EXCEPT !.refreshing = @ - 1]

\* initializeApp: setupGlobalEventListeners(), then manageHeartbeat()
initializeApp ==
  /\ ~client.started
  /\ client.signedIn
  /\ client' = manageHeartbeatEnter([client EXCEPT !.started = TRUE])
  /\ UNCHANGED <<sessions, incidents, commandRequests, issued, clock,
                 incidentLog, calls>>

\* document.visibilityState changes; once the listener is attached the
\* visibilitychange event invokes manageHeartbeat
visibilitychange ==
  /\ client.signedIn
  /\ client' =
       LET changed == [client EXCEPT !.visible = ~@, !.changes = @ + 1]
       IN IF client.started THEN manageHeartbeatEnter(changed) ELSE changed
  /\ UNCHANGED <<sessions, incidents, commandRequests, issued, clock,
                 incidentLog, calls>>

\* user.getIdToken(true) resolves for one waiting invocation
getIdTokenResolves ==
  /\ client.refreshing > 0
  /\ client' = manageHeartbeatResume(client)
  /\ UNCHANGED <<sessions, incidents, commandRequests, issued, clock,
                 incidentLog, calls>>

\* user.getIdToken(true) rejects: signOut(), and the auth listener clears
\* the timer and leaves the page for login.html
getIdTokenRejects ==
  /\ client.refreshing > 0
  /\ client' = [client EXCEPT !.signedIn = FALSE, !.timers = {},
                              !.sessionHeartbeatInterval = NullId,
                              !.refreshing = 0]
  /\ UNCHANGED <<sessions, incidents, commandRequests, issued, clock,
                 incidentLog, calls>>

\* a heartbeat timer fires: callApi("sessionHeartbeat", {sessionId})
heartbeatTimerFires ==
  /\ client.timers # {}
  /\ IF sessionHeartbeatResult(ClientUser, ClientSessionId) = "ok"
       THEN sessions' = [sessions EXCEPT ![ClientSessionId].lastActive = now]
       ELSE UNCHANGED sessions
  /\ UNCHANGED <<incidents, commandRequests, issued, clock, incidentLog,
                 calls, client>>

(***************************************************************************)
(* The command board's selection panel (command-board.js).                 *)
(***************************************************************************)
\* The decision table of handleActiveIncidentSelect: label and state of
\* takeCommandBtn and whether viewOnlyBtn is shown, for the incident as
\* getIncidentDetails returned it
ActiveIncidentButtons(incident, uid, sessionId, planLevel) ==
  LET isCommanded == incident.commanderUid # NoUser
      isCommandedByMyUser == isCommanded /\ incident.commanderUid = uid
      isCommandedByThisSession ==
        isCommandedByMyUser /\ incident.commanderSessionId = sessionId
      canRequestOrView == planLevel # "Basic"
  IN IF ~isCommanded
       THEN [textContent |-> "Take Command", disabled |-> FALSE,
             viewOnlyBtn |-> FALSE]
     ELSE IF isCommandedByThisSession
       THEN [textContent |-> "Re-establish Command", disabled |-> FALSE,
             viewOnlyBtn |-> FALSE]
     ELSE IF isCommandedByMyUser
       THEN [textContent |-> "Commanded on another device", disabled |-> TRUE,
             viewOnlyBtn |-> canRequestOrView]
     ELSE IF canRequestOrView
       THEN [textContent |-> "Request Command", disabled |-> FALSE,
             viewOnlyBtn |-> TRUE]
     ELSE [textContent |-> "Commanded by another user", disabled |-> TRUE,
           viewOnlyBtn |-> FALSE]

\* the page of user u, holding session s, selects incident i
handleActiveIncidentSelect(u, s, i) ==
  /\ s \in DOMAIN sessions
  /\ i \in DOMAIN incidents
  /\ incidents[i].customerId = UserCustomer[u]
  /\ client' =
       [client EXCEPT !.board =
          LET b == ActiveIncidentButtons(incidents[i], u, s, UserPlan[u])
          IN [uid |-> u, sessionId |-> s, incidentId |-> i,
              textContent |-> b.textContent, disabled |-> b.disabled,
              viewOnlyBtn |-> b.viewOnlyBtn]]
  /\ UNCHANGED <<sessions, incidents, commandRequests, issued, clock,
                 incidentLog, calls>>

\* A click on the enabled takeCommandBtn: the API call its label selects,
\* made with the page's session.  After a granted re-establish or take the
\* panel gives way to the incident view; after a request the button reads
\* "Request Sent..."; after a refused call the panel stays (a refused
\* request re-enables the button).
handleTakeCommandClick ==
  LET b == client.board
  IN /\ b.incidentId # NullId
     /\ ~b.disabled
     /\ \/ /\ b.textContent = "Re-establish Command"
           /\ IF reestablishCommandResult(b.uid, b.incidentId, b.sessionId) = "ok"
                THEN /\ incidents' = [incidents EXCEPT
                                        ![b.incidentId].commanderSessionId = b.sessionId]
                     /\ client' = [client EXCEPT !.board = NoBoard]
                ELSE UNCHANGED <<incidents, client>>
           /\ UNCHANGED commandRequests
        \/ /\ b.textContent = "Take Command"
           /\ IF takeIncidentCommandResult(b.uid, b.incidentId, b.sessionId) = "ok"
                THEN /\ incidents' = [incidents EXCEPT
                                        ![b.incidentId].commanderUid = b.uid,
                                        ![b.incidentId].commanderSessionId = b.sessionId]
                     /\ client' = [client EXCEPT !.board = NoBoard]
                ELSE UNCHANGED <<incidents, client>>
           /\ UNCHANGED commandRequests
        \/ /\ b.textContent = "Request Command"
           /\ IF requestIncidentCommandResult(b.uid, b.incidentId, b.sessionId) = "ok"
                THEN /\ nextRequestId <= MaxRequests
                     /\ commandRequests' =
                          Put(commandRequests, nextRequestId,
                              [incidentId |-> b.incidentId,
                               requesterUid |-> b.uid,
                               requesterSessionId |-> b.sessionId,
                               currentCommanderUid |->
                                 incidents[b.incidentId].commanderUid,
                               status |-> "pending",
                               customerId |-> UserCustomer[b.uid]])
                     /\ client' = [client EXCEPT
                                     !.board.textContent = "Request Sent...",
                                     !.board.disabled = TRUE]
                ELSE UNCHANGED <<commandRequests, client>>
           /\ UNCHANGED incidents
     /\ UNCHANGED <<sessions, issued, clock, incidentLog, calls>>

(***************************************************************************)
(* The whole backend, from the empty database.                             *)
(***************************************************************************)
Next ==
  \/ \E u \in Users : nextSessionId <= MaxSessionIds /\ createSession(u)
  \/ \E u \in Users : \E s \in IssuedTo(u) : sessionHeartbeat(u, s)
  \/ \E u \in Users : \E s \in IssuedTo(u) : endSession(u, s)
  \/ \E u \in Users : \E i \in DOMAIN incidents, s \in IssuedTo(u) :
       takeIncidentCommand(u, i, s)
  \/ \E u \in Users : \E s \in IssuedTo(u) : startNewIncident(u, s)
  \/ \E u \in Users, i \in DOMAIN incidents : closeIncident(u, i)
  \/ \E u \in Users : \E i \in DOMAIN incidents, s \in IssuedTo(u) :
       reestablishCommand(u, i, s)
  \/ \E u \in Users : \E i \in DOMAIN incidents, s \in IssuedTo(u) :
       requestIncidentCommand(u, i, s)
  \/ \E u \in Users, r \in DOMAIN commandRequests : approveCommandRequest(u, r)
  \/ \E u \in Users, r \in DOMAIN commandRequests : denyCommandRequest(u, r)
  \/ cleanupstalecommandsessions
  \/ cleanupoldsessions
  \/ Tick(Len(Timeline))

Spec == Init /\ [][Next]_vars

(***************************************************************************)
(* The command arbiter and the handoff workflow after two users of tenant  *)
(* t1 have logged in on one device each: command operations, requests,     *)
(* heartbeats and the hourly sweep, with the clock running until the       *)
(* sessions of the first instant are older than two hours.                 *)
(***************************************************************************)
HandoffUsers == {"u1", "u2"}

InitHandoff ==
  /\ sessions = [s \in {1, 2} |->
                   [uid |-> IF s = 1 THEN "u1" ELSE "u2", customerId |-> "t1",
                    lastActive |-> Timeline[1]]]
  /\ issued = <<"u1", "u2">>
  /\ incidents = << >>
  /\ commandRequests = << >>
  /\ clock = 1
  /\ incidentLog = << >>
  /\ calls = << >>
  /\ client = ClientInit

NextHandoff ==
  \/ \E u \in HandoffUsers : \E s \in IssuedTo(u) : sessionHeartbeat(u, s)
  \/ \E u \in HandoffUsers : \E i \in DOMAIN incidents, s \in IssuedTo(u) :
       takeIncidentCommand(u, i, s)
  \/ \E u \in HandoffUsers : \E s \in IssuedTo(u) : startNewIncident(u, s)
  \/ \E u \in HandoffUsers, i \in DOMAIN incidents : closeIncident(u, i)
  \/ \E u \in HandoffUsers : \E i \in DOMAIN incidents, s \in IssuedTo(u) :
       reestablishCommand(u, i, s)
  \/ \E u \in HandoffUsers : \E i \in DOMAIN incidents, s \in IssuedTo(u) :
       requestIncidentCommand(u, i, s)
  \/ \E u \in HandoffUsers, r \in DOMAIN commandRequests :
       approveCommandRequest(u, r)
  \/ \E u \in HandoffUsers, r \in DOMAIN commandRequests :
       denyCommandRequest(u, r)
  \/ cleanupstalecommandsessions
  \/ Tick(Len(Timeline) - 1)

SpecHandoff == InitHandoff /\ [][NextHandoff]_vars

(***************************************************************************)
(* The session manager and the reapers from the empty database: logins,    *)
(* heartbeats, logouts, the operations that record a commanding session    *)
(* on an incident, both sweeps and the clock.  No handoff requests.        *)
(***************************************************************************)
NextSession ==
  \/ \E u \in Users : nextSessionId <= MaxSessionIds /\ createSession(u)
  \/ \E u \in Users : \E s \in IssuedTo(u) : sessionHeartbeat(u, s)
  \/ \E u \in Users : \E s \in IssuedTo(u) : endSession(u, s)
  \/ \E u \in Users : \E i \in DOMAIN incidents, s \in IssuedTo(u) :
       takeIncidentCommand(u, i, s)
  \/ \E u \in Users : \E s \in IssuedTo(u) : startNewIncident(u, s)
  \/ \E u \in Users, i \in DOMAIN incidents : closeIncident(u, i)
  \/ \E u \in Users : \E i \in DOMAIN incidents, s \in IssuedTo(u) :
       reestablishCommand(u, i, s)
  \/ cleanupstalecommandsessions
  \/ cleanupoldsessions
  \/ Tick(Len(Timeline))

SpecSession == Init /\ [][NextSession]_vars

(***************************************************************************)
(* The hourly sweep and the session quota of tenant t1, from the empty     *)
(* database: logins (one more session id than the other specifications     *)
(* hand out), heartbeats, the operations that record a session on an       *)
(* incident, the sweep, and the clock until the first sessions are older   *)
(* than two hours.                                                         *)
(***************************************************************************)
NextSweep ==
  \/ \E u \in HandoffUsers :
       nextSessionId <= MaxSweepSessionIds /\ createSession(u)
  \/ \E u \in HandoffUsers : \E s \in IssuedTo(u) : sessionHeartbeat(u, s)
  \/ \E u \in HandoffUsers : \E s \in IssuedTo(u) : startNewIncident(u, s)
  \/ \E u \in HandoffUsers : \E i \in DOMAIN incidents, s \in IssuedTo(u) :
       reestablishCommand(u, i, s)
  \/ cleanupstalecommandsessions
  \/ Tick(Len(Timeline) - 1)

SpecSweep == Init /\ [][NextSweep]_vars

(***************************************************************************)
(* The audit log: two users of tenant t1, logged in on one device each,    *)
(* start, close and delete incidents, request, approve and re-establish    *)
(* command, with every log entry the handlers write, until the log holds   *)
(* MaxLogEntries entries.                                                  *)
(***************************************************************************)
NextAudit ==
  \/ \E u \in HandoffUsers : \E s \in IssuedTo(u) : startNewIncident(u, s)
  \/ \E u \in HandoffUsers, i \in DOMAIN incidents : closeIncident(u, i)
  \/ \E u \in HandoffUsers, i \in DOMAIN incidents, c \in AdminCodes :
       deleteIncident(u, i, c)
  \/ \E u \in HandoffUsers : \E i \in DOMAIN incidents, s \in IssuedTo(u) :
       Len(incidentLog) < MaxLogEntries /\ requestIncidentCommandLogged(u, i, s)
  \/ \E u \in HandoffUsers, r \in DOMAIN commandRequests :
       Len(incidentLog) < MaxLogEntries /\ approveCommandRequestLogged(u, r)
  \/ \E u \in HandoffUsers : \E i \in DOMAIN incidents, s \in IssuedTo(u) :
       Len(incidentLog) < MaxLogEntries /\ reestablishCommandLogged(u, i, s)

SpecAudit == InitHandoff /\ [][NextAudit]_vars

(***************************************************************************)
(* The life of a handoff request: the handoff operations of the two users  *)
(* of tenant t1 together with logout, both reapers and the clock up to the *)
(* instant at which the first sessions are older than sixty days.          *)
(***************************************************************************)
NextPending ==
  \/ \E u \in HandoffUsers : \E s \in IssuedTo(u) : sessionHeartbeat(u, s)
  \/ \E u \in HandoffUsers : \E s \in IssuedTo(u) : endSession(u, s)
  \/ \E u \in HandoffUsers : \E i \in DOMAIN incidents, s \in IssuedTo(u) :
       takeIncidentCommand(u, i, s)
  \/ \E u \in HandoffUsers : \E s \in IssuedTo(u) : startNewIncident(u, s)
  \/ \E u \in HandoffUsers, i \in DOMAIN incidents : closeIncident(u, i)
  \/ \E u \in HandoffUsers : \E i \in DOMAIN incidents, s \in IssuedTo(u) :
       reestablishCommand(u, i, s)
  \/ \E u \in HandoffUsers : \E i \in DOMAIN incidents, s \in IssuedTo(u) :
       requestIncidentCommand(u, i, s)
  \/ \E u \in HandoffUsers, r \in DOMAIN commandRequests :
       approveCommandRequest(u, r)
  \/ \E u \in HandoffUsers, r \in DOMAIN commandRequests :
       denyCommandRequest(u, r)
  \/ cleanupstalecommandsessions
  \/ cleanupoldsessions
  \/ Tick(Len(Timeline))

SpecPending == InitHandoff /\ [][NextPending]_vars

(***************************************************************************)
(* Overlapping startNewIncident invocations of the two users of tenant t1  *)
(* (one command license), with takeIncidentCommand, closeIncident, the     *)
(* hourly sweep and the clock.                                             *)
(***************************************************************************)
NextStartRace ==
  \/ \E u \in HandoffUsers : \E s \in IssuedTo(u) : startNewIncidentCheck1(u, s)
  \/ \E c \in DOMAIN calls : startNewIncidentCheck2(c)
  \/ \E c \in DOMAIN calls : startNewIncidentAdd(c)
  \/ \E u \in HandoffUsers : \E i \in DOMAIN incidents, s \in IssuedTo(u) :
       takeIncidentCommand(u, i, s)
  \/ \E u \in HandoffUsers, i \in DOMAIN incidents : closeIncident(u, i)
  \/ cleanupstalecommandsessions
  \/ Tick(Len(Timeline) - 1)

SpecStartRace == InitHandoff /\ [][NextStartRace]_vars

(***************************************************************************)
(* Overlapping logins of the two users of tenant t1 (two device slots)     *)
(* from the empty database, with the operations that make a user a         *)
(* commander and the clock until the first sessions are stale.             *)
(***************************************************************************)
NextLoginRace ==
  \/ \E u \in HandoffUsers :
       /\ Len(issued) + Cardinality(createSessionCalls) < MaxSessionIds
       /\ createSessionRead(u)
  \/ \E c \in DOMAIN calls : createSessionCommanderQuery(c)
  \/ \E c \in DOMAIN calls : createSessionActiveCmdQuery(c)
  \/ \E c \in DOMAIN calls : createSessionDelete(c)
  \/ \E c \in DOMAIN calls : createSessionAdd(c)
  \/ \E u \in HandoffUsers : \E s \in IssuedTo(u) : startNewIncident(u, s)
  \/ \E u \in HandoffUsers, i \in DOMAIN incidents : closeIncident(u, i)
  \/ Tick(Len(Timeline) - 1)

SpecLoginRace == Init /\ [][NextLoginRace]_vars

(***************************************************************************)
(* Overlapping requestIncidentCommand invocations in tenant t1: u1 starts  *)
(* and closes incidents, u2 asks for command from one or two pages at a    *)
(* time, and requests are approved or denied.                              *)
(***************************************************************************)
NextRequestRace ==
  \/ \E u \in HandoffUsers : \E s \in IssuedTo(u) : startNewIncident(u, s)
  \/ \E u \in HandoffUsers, i \in DOMAIN incidents : closeIncident(u, i)
  \/ \E u \in HandoffUsers : \E i \in DOMAIN incidents, s \in IssuedTo(u) :
       requestIncidentCommandVerify(u, i, s)
  \/ \E c \in DOMAIN calls : requestIncidentCommandQuery(c)
  \/ \E c \in DOMAIN calls : requestIncidentCommandAdd(c)
  \/ \E c \in DOMAIN calls : requestIncidentCommandLog(c)
  \/ \E u \in HandoffUsers, r \in DOMAIN commandRequests :
       approveCommandRequest(u, r)
  \/ \E u \in HandoffUsers, r \in DOMAIN commandRequests :
       denyCommandRequest(u, r)

SpecRequestRace == InitHandoff /\ [][NextRequestRace]_vars

(***************************************************************************)
(* The page of u1 against the backend: the heartbeat loop under visibility *)
(* changes and credential refreshes, an incident u1 may start, the hourly  *)
(* sweep and the clock.                                                    *)
(***************************************************************************)
NextClient ==
  \/ initializeApp
  \/ client.changes < MaxVisibilityChanges /\ visibilitychange
  \/ getIdTokenResolves
  \/ getIdTokenRejects
  \/ heartbeatTimerFires
  \/ startNewIncident(ClientUser, ClientSessionId)
  \/ cleanupstalecommandsessions
  \/ Tick(Len(Timeline) - 1)

SpecClient == InitHandoff /\ [][NextClient]_vars

(***************************************************************************)
(* Abandoned clients.  The two users of tenant t1 log in, take command,    *)
(* send heartbeats and log out at the first instant of the Timeline; then  *)
(* every client has stopped for good, time passes and only the two         *)
(* scheduled reapers run.  The scheduler runs each reaper again and again  *)
(* (every 60 minutes, every 24 hours) and time does not stop, which is     *)
(* weak fairness of the three actions.                                     *)
(***************************************************************************)
ClientsRunning == clock = 1

NextReclaim ==
  \/ \E u \in HandoffUsers :
       ClientsRunning /\ nextSessionId <= MaxSessionIds /\ createSession(u)
  \/ \E u \in HandoffUsers : \E s \in IssuedTo(u) :
       ClientsRunning /\ sessionHeartbeat(u, s)
  \/ \E u \in HandoffUsers : \E s \in IssuedTo(u) :
       ClientsRunning /\ endSession(u, s)
  \/ \E u \in HandoffUsers : \E s \in IssuedTo(u) :
       ClientsRunning /\ startNewIncident(u, s)
  \/ cleanupstalecommandsessions
  \/ cleanupoldsessions
  \/ Tick(Len(Timeline))

SpecReclaim ==
  /\ Init
  /\ [][NextReclaim]_vars
  /\ WF_vars(cleanupstalecommandsessions)
  /\ WF_vars(cleanupoldsessions)
  /\ WF_vars(Tick(Len(Timeline)))

(***************************************************************************)
(* The command board of the two users of tenant t1, from the empty         *)
(* database: logins on up to MaxSessionIds devices, new incidents, the     *)
(* hourly sweep and the clock, the selection of an incident and the click  *)
(* on the button the panel offers.                                         *)
(***************************************************************************)
NextBoard ==
  \/ \E u \in HandoffUsers :
       nextSessionId <= MaxSessionIds /\ createSession(u)
  \/ \E u \in HandoffUsers : \E s \in IssuedTo(u) : startNewIncident(u, s)
  \/ \E u \in HandoffUsers : \E s \in IssuedTo(u), i \in DOMAIN incidents :
       handleActiveIncidentSelect(u, s, i)
  \/ handleTakeCommandClick
  \/ cleanupstalecommandsessions
  \/ Tick(Len(Timeline) - 1)

SpecBoard == Init /\ [][NextBoard]_vars

(***************************************************************************)
(* The hourly sweep step by step against the clients of tenant t1, from    *)
(* the empty database: logins, new incidents, heartbeats, re-established   *)
(* and taken command, and the clock until the first sessions are older     *)
(* than two hours.                                                         *)
(***************************************************************************)
NextSweepRace ==
  \/ \E u \in HandoffUsers :
       nextSessionId <= MaxSessionIds /\ createSession(u)
  \/ \E u \in HandoffUsers : \E s \in IssuedTo(u) : startNewIncident(u, s)
  \/ \E u \in HandoffUsers : \E s \in IssuedTo(u) : sessionHeartbeat(u, s)
  \/ \E u \in HandoffUsers : \E i \in DOMAIN incidents, s \in IssuedTo(u) :
       reestablishCommand(u, i, s)
  \/ \E u \in HandoffUsers : \E i \in DOMAIN incidents, s \in IssuedTo(u) :
       takeIncidentCommand(u, i, s)
  \/ sweepReadStale
  \/ \E c \in DOMAIN calls : sweepReadLocked(c)
  \/ \E c \in DOMAIN calls : sweepCommit(c)
  \/ Tick(Len(Timeline) - 1)

SpecSweepRace == Init /\ [][NextSweepRace]_vars

(***************************************************************************)
(* Properties                                                              *)
(***************************************************************************)
\* the Active incidents recorded as commanded by user u
ActiveCommandedBy(u) ==
  {i \in DOMAIN incidents : /\ incidents[i].status = "Active"
                            /\ incidents[i].commanderUid = u}

\* C1: for every tenant, the number of session documents of the tenant is
\* at most the tenant's maxTotalSessions.
SessionQuota ==
  \A t \in Tenants :
    Cardinality(TenantSessions(sessions, t)) <= maxTotalSessions(t)

\* C2: for every tenant, the number of Active incidents of the tenant with
\* a non-null commander is at most the tenant's maxCommandLicenses.
LicenseQuota ==
  \A t \in Tenants :
    Cardinality(CommandingIncidents(incidents, t)) <= maxCommandLicenses(t)

\* C3: for every user, at most one Active incident has commanderUid = user.
OneActiveIncidentPerUser ==
  \A u \in Users : Cardinality(ActiveCommandedBy(u)) <= 1

\* C4: whenever an incident has a non-null commanderSessionId, that id is
\* an existing session document owned by the incident's commanderUid.
CommanderReferenceIntegrity ==
  \A i \in DOMAIN incidents :
    incidents[i].commanderSessionId # NullId =>
      /\ incidents[i].commanderSessionId \in DOMAIN sessions
      /\ sessions[incidents[i].commanderSessionId].uid = incidents[i].commanderUid

\* C5: for every incident, commanderUid and commanderSessionId are either
\* both null or both non-null.
CommanderFieldPairing ==
  \A i \in DOMAIN incidents :
    (incidents[i].commanderUid = NoUser) <=> (incidents[i].commanderSessionId = NullId)

\* C5 witness: one incident was released by the hourly sweep (Active with
\* both fields null) while another incident carries both fields.
CommanderFieldPairingWitness ==
  \E i, j \in DOMAIN incidents :
    /\ incidents[i].status = "Active"
    /\ incidents[i].commanderUid = NoUser
    /\ incidents[i].commanderSessionId = NullId
    /\ incidents[j].commanderUid # NoUser
    /\ incidents[j].commanderSessionId # NullId

\* C6: while a request for an incident is pending, a further
\* requestIncidentCommand by a non-commander on that commanded incident is
\* answered with already-exists, and no incident has two pending requests.
SecondRequestAlreadyExists ==
  \A i \in DOMAIN incidents :
    LET pending == {r \in DOMAIN commandRequests :
                      /\ commandRequests[r].incidentId = i
                      /\ commandRequests[r].status = "pending"}
    IN /\ Cardinality(pending) <= 1
       /\ \A u \in Users : \A s \in IssuedTo(u) :
            ( /\ pending # {}
              /\ incidents[i].customerId = UserCustomer[u]
              /\ incidents[i].commanderUid # NoUser
              /\ incidents[i].commanderUid # u )
            => requestIncidentCommandResult(u, i, s) = "already-exists"

\* C6 witness: a first request is pending on a commanded incident and a
\* second call by a non-commander is answered with already-exists.
SecondRequestAlreadyExistsWitness ==
  \E r \in DOMAIN commandRequests :
    /\ commandRequests[r].status = "pending"
    /\ incidents[commandRequests[r].incidentId].commanderUid # NoUser
    /\ \E u \in Users : \E s \in IssuedTo(u) :
         /\ u # incidents[commandRequests[r].incidentId].commanderUid
         /\ requestIncidentCommandResult(u, commandRequests[r].incidentId, s)
              = "already-exists"

\* C7: approveCommandRequest answers ok only to the user recorded as the
\* request's currentCommanderUid; every other caller gets permission-denied
\* (and an error response writes nothing).
ApproveOnlyByRecordedCommander ==
  \A r \in DOMAIN commandRequests : \A u \in Users :
    /\ approveCommandRequestResult(u, r) = "ok"
         => u = commandRequests[r].currentCommanderUid
    /\ u # commandRequests[r].currentCommanderUid
         => approveCommandRequestResult(u, r) = "permission-denied"

\* C7 witness: a request was approved, and a caller other than its recorded
\* commander is refused with permission-denied.
ApproveOnlyByRecordedCommanderWitness ==
  \E r \in DOMAIN commandRequests : \E u \in Users :
    /\ commandRequests[r].status = "approved"
    /\ u # commandRequests[r].currentCommanderUid
    /\ approveCommandRequestResult(u, r) = "permission-denied"

\* C8: every successful approveCommandRequest step leaves the incident
\* commanded by the request's requesterUid from the request's
\* requesterSessionId and the request approved, all in the same step.
ApproveAtomicTransfer ==
  [][\A u \in Users : \A r \in DOMAIN commandRequests :
       (approveCommandRequestResult(u, r) = "ok" /\ approveCommandRequest(u, r))
       => LET req == commandRequests[r]
          IN /\ incidents'[req.incidentId].commanderUid = req.requesterUid
             /\ incidents'[req.incidentId].commanderSessionId = req.requesterSessionId
             /\ commandRequests'[r].status = "approved"]_vars

\* C8 witness: a request is approved and its incident is commanded by the
\* requester from the requester's recorded session.
ApproveAtomicTransferWitness ==
  \E r \in DOMAIN commandRequests :
    LET req == commandRequests[r]
    IN /\ req.status = "approved"
       /\ incidents[req.incidentId].commanderUid = req.requesterUid
       /\ incidents[req.incidentId].commanderSessionId = req.requesterSessionId
       /\ req.requesterUid # req.currentCommanderUid

\* C9: a request that is approved or denied keeps its status for ever, and
\* no approveCommandRequest on it changes any incident.
HandoffStateMachine ==
  [][\A r \in DOMAIN commandRequests :
       commandRequests[r].status # "pending"
       => /\ commandRequests'[r].status = commandRequests[r].status
          /\ \A u \in Users : approveCommandRequest(u, r) => incidents' = incidents]_vars

\* C10: a successful approveCommandRequest leaves the number of commanded
\* Active incidents of every tenant unchanged.
ApproveConsumesNoLicense ==
  [][(\E u \in Users : \E r \in DOMAIN commandRequests : approveCommandRequest(u, r))
       => \A t \in Tenants :
            Cardinality(CommandingIncidents(incidents', t))
              = Cardinality(CommandingIncidents(incidents, t))]_vars

\* C11: when the tenant is at or above its session quota, the caller
\* commands no Active incident and no session of the tenant is both
\* non-commanding and inactive for more than fifteen minutes, createSession
\* answers permission-denied and no createSession step of the caller exists
\* (nothing is created or deleted).
CreateSessionHardFailure ==
  \A u \in Users :
    LET t == UserCustomer[u]
        commanding(s) == \E i \in DOMAIN incidents :
                           /\ incidents[i].status = "Active"
                           /\ incidents[i].commanderSessionId = s
    IN ( /\ Cardinality(TenantSessions(sessions, t)) >= maxTotalSessions(t)
         /\ ~\E i \in DOMAIN incidents : /\ incidents[i].status = "Active"
                                         /\ incidents[i].commanderUid = u
         /\ ~\E s \in TenantSessions(sessions, t) :
               /\ ~commanding(s)
               /\ now - sessions[s].lastActive > fifteenMinutes )
       => /\ createSessionResult(u) = "permission-denied"
          /\ createSessionDeletes(u) = {}
          /\ ~ENABLED createSession(u)

\* C11 witness: a tenant at quota whose only stale session is a commanding
\* one, and a caller who commands nothing and is refused, while session ids
\* are still available.
CreateSessionHardFailureWitness ==
  \E u \in Users :
    /\ nextSessionId <= MaxSessionIds
    /\ createSessionResult(u) = "permission-denied"
    /\ commanderSnapshot(u) = {}
    /\ \E s \in TenantSessions(sessions, UserCustomer[u]) :
         /\ sessions[s].lastActive < now - fifteenMinutes
         /\ s \in commandingSessionIds(UserCustomer[u])

\* C12: a caller who is the recorded commander of an Active incident of the
\* tenant is never refused by createSession; when the tenant is at quota,
\* the step removes the session recorded on such an incident (and no other)
\* and adds a new session owned by the caller.
PrivilegedReentry ==
  [][\A u \in Users :
       commanderSnapshot(u) # {}
       => /\ createSessionResult(u) = "ok"
          /\ (createSession(u) /\ ~OpenSlot(UserCustomer[u]))
               => \E i \in commanderSnapshot(u) :
                    /\ DOMAIN sessions' =
                         (DOMAIN sessions \ {incidents[i].commanderSessionId})
                           \cup {nextSessionId}
                    /\ sessions'[nextSessionId].uid = u]_vars

\* C12 witness: the commander of an Active incident holds a new session
\* while the session recorded on the incident is gone and the tenant is at
\* quota.
PrivilegedReentryWitness ==
  \E u \in Users : \E i \in commanderSnapshot(u) :
    /\ incidents[i].commanderSessionId \notin DOMAIN sessions
    /\ \E s \in DOMAIN sessions : /\ sessions[s].uid = u
                                  /\ s > incidents[i].commanderSessionId
    /\ ~OpenSlot(UserCustomer[u])

\* C13: when the tenant is at quota and the caller commands no Active
\* incident, a createSession step deletes exactly one session: one of the
\* tenant's, inactive for more than fifteen minutes, recorded as commanding
\* session of no Active incident, and with the oldest lastActive among those.
GeneralEviction ==
  [][\A u \in Users :
       LET t == UserCustomer[u]
           commanding(s) == \E i \in DOMAIN incidents :
                              /\ incidents[i].status = "Active"
                              /\ incidents[i].commanderSessionId = s
           evictable == {s \in TenantSessions(sessions, t) :
                           /\ ~commanding(s)
                           /\ now - sessions[s].lastActive > fifteenMinutes}
       IN ( /\ createSession(u)
            /\ Cardinality(TenantSessions(sessions, t)) >= maxTotalSessions(t)
            /\ commanderSnapshot(u) = {} )
          => \E d \in evictable :
               /\ DOMAIN sessions' = (DOMAIN sessions \ {d}) \cup {nextSessionId}
               /\ \A o \in evictable :
                    sessions[d].lastActive <= sessions[o].lastActive]_vars

\* C13 witness: a caller who commands nothing faces a full tenant with two
\* evictable sessions of different age, and a session id is available.
GeneralEvictionWitness ==
  \E u \in Users :
    /\ nextSessionId <= MaxSessionIds
    /\ ~OpenSlot(UserCustomer[u])
    /\ commanderSnapshot(u) = {}
    /\ \E a, b \in TenantSessions(sessions, UserCustomer[u]) :
         /\ BumpCandidate(a, UserCustomer[u])
         /\ BumpCandidate(b, UserCustomer[u])
         /\ sessions[a].lastActive < sessions[b].lastActive

\* C14: when the tenant's commanded Active incidents are at or above
\* maxCommandLicenses and the target incident of the tenant is not commanded
\* by the caller, takeIncidentCommand answers permission-denied and no step
\* of the call changes the incidents; a caller with a valid session who
\* retakes the incident they command (and is recorded on no other incident)
\* is granted command however many licenses are in use.
TakeLicenseGate ==
  \A u \in Users : \A i \in DOMAIN incidents : \A s \in IssuedTo(u) :
    LET t == UserCustomer[u]
        commanded == {j \in DOMAIN incidents : /\ incidents[j].customerId = t
                                               /\ incidents[j].status = "Active"
                                               /\ incidents[j].commanderUid # NoUser}
    IN incidents[i].customerId = t
       => /\ ( /\ Cardinality(commanded) >= maxCommandLicenses(t)
               /\ incidents[i].commanderUid # u )
             => /\ takeIncidentCommandResult(u, i, s) = "permission-denied"
                /\ ~ENABLED (takeIncidentCommand(u, i, s) /\ incidents' # incidents)
          /\ ( /\ incidents[i].commanderUid = u
               /\ SessionOwnedBy(s, u)
               /\ \A j \in DOMAIN incidents \ {i} : incidents[j].commanderUid # u )
             => takeIncidentCommandResult(u, i, s) = "ok"

\* C14 witness: all licenses of the tenant are in use; one user is refused
\* on an incident someone else commands while the commander's own retake is
\* granted.
TakeLicenseGateWitness ==
  \E u, v \in Users : \E i \in DOMAIN incidents :
    /\ u # v
    /\ Cardinality(CommandingIncidents(incidents, UserCustomer[u]))
         >= maxCommandLicenses(UserCustomer[u])
    /\ incidents[i].commanderUid = v
    /\ \E s \in IssuedTo(u) : /\ SessionOwnedBy(s, u)
                              /\ takeIncidentCommandResult(u, i, s) = "permission-denied"
    /\ \E s \in IssuedTo(v) : takeIncidentCommandResult(v, i, s) = "ok"

\* C15: for a caller with a valid session whom the license gate lets
\* through, takeIncidentCommand on an incident of the tenant is refused
\* exactly when the caller commands a different Active incident (an
\* incident that is not Active never blocks the call); when it is granted,
\* every step of the call leaves the incident commanded by the caller from
\* the given session.
TakeSingleIncidentGate ==
  \A u \in Users : \A i \in DOMAIN incidents : \A s \in IssuedTo(u) :
    LET t == UserCustomer[u]
        commanded == {j \in DOMAIN incidents : /\ incidents[j].customerId = t
                                               /\ incidents[j].status = "Active"
                                               /\ incidents[j].commanderUid # NoUser}
        licenseFree == \/ Cardinality(commanded) < maxCommandLicenses(t)
                       \/ incidents[i].commanderUid = u
        commandsOther == \E j \in DOMAIN incidents \ {i} :
                           /\ incidents[j].status = "Active"
                           /\ incidents[j].commanderUid = u
    IN (incidents[i].customerId = t /\ SessionOwnedBy(s, u) /\ licenseFree)
       => /\ (takeIncidentCommandResult(u, i, s) # "ok") <=> commandsOther
          /\ takeIncidentCommandResult(u, i, s) = "ok"
             => ~ENABLED ( /\ takeIncidentCommand(u, i, s)
                           /\ ~ /\ incidents'[i].commanderUid = u
                                /\ incidents'[i].commanderSessionId = s )

\* C16: startNewIncident answers permission-denied when the tenant's
\* commanded Active incidents are at or above maxCommandLicenses, and
\* otherwise failed-precondition when the caller already commands an Active
\* incident; a refused call has no step that changes the incidents, and
\* every step of a granted call adds exactly one incident: Active, of the
\* caller's tenant, commanded by the caller from the given session.
StartNewIncidentGates ==
  \A u \in Users : \A s \in IssuedTo(u) :
    LET t == UserCustomer[u]
        commanded == {j \in DOMAIN incidents : /\ incidents[j].customerId = t
                                               /\ incidents[j].status = "Active"
                                               /\ incidents[j].commanderUid # NoUser}
        full == Cardinality(commanded) >= maxCommandLicenses(t)
        commands == \E j \in DOMAIN incidents : /\ incidents[j].status = "Active"
                                                /\ incidents[j].commanderUid = u
        res == startNewIncidentResult(u, s)
    IN /\ full => res = "permission-denied"
       /\ (~full /\ commands) => res = "failed-precondition"
       /\ (~full /\ ~commands) => res = "ok"
       /\ res # "ok"
            => ~ENABLED (startNewIncident(u, s) /\ incidents' # incidents)
       /\ res = "ok"
            => ~ENABLED
                 ( /\ startNewIncident(u, s)
                   /\ ~ \E n \in DOMAIN incidents' \ DOMAIN incidents :
                          /\ DOMAIN incidents' = DOMAIN incidents \cup {n}
                          /\ \A j \in DOMAIN incidents : incidents'[j] = incidents[j]
                          /\ incidents'[n] = [customerId |-> t,
                                              status |-> "Active",
                                              commanderUid |-> u,
                                              commanderSessionId |-> s] )

\* C16 witness: incidents were started; one caller is refused for licenses
\* and another, whose tenant has a free license, because they command an
\* Active incident they started.
StartNewIncidentGatesWitness ==
  \E u, v \in Users : \E s \in IssuedTo(u), z \in IssuedTo(v) :
    /\ startNewIncidentResult(u, s) = "permission-denied"
    /\ startNewIncidentResult(v, z) = "failed-precondition"
    /\ \E i \in DOMAIN incidents : /\ incidents[i].status = "Active"
                                   /\ incidents[i].commanderUid = v
                                   /\ incidents[i].commanderSessionId \in IssuedTo(v)

\* C17: closeIncident answers permission-denied to every caller who is not
\* the incident's recorded commander and no step of such a call changes the
\* incidents; for the recorded commander every step of the call sets, at
\* once, status Closed and both commander fields null on that incident
\* only, so that the incident no longer counts as commanded and, if it was
\* Active, the tenant's count of commanded Active incidents drops by one.
CloseIncidentByCommander ==
  \A u \in Users : \A i \in DOMAIN incidents :
    LET t == incidents[i].customerId
    IN /\ incidents[i].commanderUid # u
            => /\ closeIncidentResult(u, i) = "permission-denied"
               /\ ~ENABLED (closeIncident(u, i) /\ incidents' # incidents)
       /\ incidents[i].commanderUid = u
            => /\ closeIncidentResult(u, i) = "ok"
               /\ ~ENABLED
                    ( /\ closeIncident(u, i)
                      /\ ~ /\ incidents' =
                                [incidents EXCEPT
                                   ![i] = [customerId |-> t,
                                           status |-> "Closed",
                                           commanderUid |-> NoUser,
                                           commanderSessionId |-> NullId]]
                           /\ CommandingIncidents(incidents', t)
                                = CommandingIncidents(incidents, t) \ {i}
                           /\ incidents[i].status = "Active"
                                => Cardinality(CommandingIncidents(incidents', t))
                                     = Cardinality(CommandingIncidents(incidents, t)) - 1 )

\* C17 witness: one incident was closed (Closed, both commander fields
\* null) and another is commanded, where a caller other than its commander
\* is refused.
CloseIncidentByCommanderWitness ==
  \E i, j \in DOMAIN incidents : \E u \in Users :
    /\ incidents[i].status = "Closed"
    /\ incidents[i].commanderUid = NoUser
    /\ incidents[i].commanderSessionId = NullId
    /\ incidents[j].status = "Active"
    /\ incidents[j].commanderUid \notin {NoUser, u}
    /\ closeIncidentResult(u, j) = "permission-denied"

\* C18: reestablishCommand is granted exactly when the caller is the
\* incident's recorded commanderUid, whether or not the recorded or the
\* presented session exists; every step of a granted call changes nothing
\* but that incident's commanderSessionId, which becomes the presented
\* session; any other caller gets permission-denied and no step of the call
\* changes the incidents.
ReestablishOnlyChangesSession ==
  \A u \in Users : \A i \in DOMAIN incidents : \A s \in IssuedTo(u) :
    /\ (reestablishCommandResult(u, i, s) = "ok") <=> (incidents[i].commanderUid = u)
    /\ incidents[i].commanderUid # u
         => /\ reestablishCommandResult(u, i, s) = "permission-denied"
            /\ ~ENABLED (reestablishCommand(u, i, s) /\ incidents' # incidents)
    /\ incidents[i].commanderUid = u
         => ~ENABLED
              ( /\ reestablishCommand(u, i, s)
                /\ ~ /\ incidents' =
                          [incidents EXCEPT
                             ![i] = [customerId |-> incidents[i].customerId,
                                     status |-> incidents[i].status,
                                     commanderUid |-> u,
                                     commanderSessionId |-> s]]
                     /\ UNCHANGED <<sessions, commandRequests>> )

\* C18 witness: the session recorded on a commanded incident is gone, the
\* commander holds another live session and is granted the re-establish
\* with it, while another user's call is refused.
ReestablishOnlyChangesSessionWitness ==
  \E u, v \in Users : \E i \in DOMAIN incidents :
    /\ incidents[i].commanderUid = u
    /\ incidents[i].commanderSessionId \notin DOMAIN sessions
    /\ \E s \in IssuedTo(u) : /\ s \in DOMAIN sessions
                              /\ s # incidents[i].commanderSessionId
                              /\ reestablishCommandResult(u, i, s) = "ok"
    /\ v # u
    /\ \E z \in IssuedTo(v) : reestablishCommandResult(v, i, z) = "permission-denied"

\* C19: on an incident of the caller's tenant, requestIncidentCommand
\* answers failed-precondition when the incident is uncommanded or commanded
\* by the caller, otherwise already-exists when a request for the incident
\* is pending, otherwise ok; a refused call has no step that changes the
\* requests, and every step of a granted call adds exactly one request:
\* pending, for that incident, recording the caller, the presented session
\* and the incident's current commander.
RequestIncidentCommandOutcomes ==
  \A u \in Users : \A i \in DOMAIN incidents : \A s \in IssuedTo(u) :
    LET res == requestIncidentCommandResult(u, i, s)
        uncommanded == incidents[i].commanderUid = NoUser
        own == incidents[i].commanderUid = u
        pending == \E r \in DOMAIN commandRequests :
                     /\ commandRequests[r].incidentId = i
                     /\ commandRequests[r].status = "pending"
    IN incidents[i].customerId = UserCustomer[u]
       => /\ (uncommanded \/ own) => res = "failed-precondition"
          /\ (~uncommanded /\ ~own /\ pending) => res = "already-exists"
          /\ (~uncommanded /\ ~own /\ ~pending) => res = "ok"
          /\ res # "ok"
               => ~ENABLED ( /\ requestIncidentCommand(u, i, s)
                             /\ commandRequests' # commandRequests )
          /\ res = "ok"
               => ~ENABLED
                    ( /\ requestIncidentCommand(u, i, s)
                      /\ ~ \E n \in DOMAIN commandRequests' \ DOMAIN commandRequests :
                             /\ DOMAIN commandRequests'
                                  = DOMAIN commandRequests \cup {n}
                             /\ \A r \in DOMAIN commandRequests :
                                  commandRequests'[r] = commandRequests[r]
                             /\ commandRequests'[n].status = "pending"
                             /\ commandRequests'[n].incidentId = i
                             /\ commandRequests'[n].requesterUid = u
                             /\ commandRequests'[n].requesterSessionId = s
                             /\ commandRequests'[n].currentCommanderUid
                                  = incidents[i].commanderUid
                             /\ incidents' = incidents )

\* C19 witness: a pending request records requester, session and commander
\* of a commanded incident; a further request is answered already-exists,
\* the commander's own failed-precondition, and on an uncommanded Active
\* incident a request is answered failed-precondition as well.
RequestIncidentCommandOutcomesWitness ==
  \E r \in DOMAIN commandRequests : \E j \in DOMAIN incidents :
    LET req == commandRequests[r]
        i == req.incidentId
    IN /\ req.status = "pending"
       /\ req.currentCommanderUid = incidents[i].commanderUid
       /\ req.requesterSessionId \in IssuedTo(req.requesterUid)
       /\ requestIncidentCommandResult(req.requesterUid, i, req.requesterSessionId)
            = "already-exists"
       /\ \E s \in IssuedTo(req.currentCommanderUid) :
            requestIncidentCommandResult(req.currentCommanderUid, i, s)
              = "failed-precondition"
       /\ incidents[j].status = "Active"
       /\ incidents[j].commanderUid = NoUser
       /\ \E s \in IssuedTo(req.requesterUid) :
            requestIncidentCommandResult(req.requesterUid, j, s)
              = "failed-precondition"

\* C20: denyCommandRequest called by the request's recorded
\* currentCommanderUid is granted and every step of the call marks that
\* request denied and changes nothing else (no incident, no other request);
\* any other caller gets permission-denied and no step of the call changes
\* the requests or the incidents.
DenyByRecordedCommander ==
  \A u \in Users : \A r \in DOMAIN commandRequests :
    /\ u = commandRequests[r].currentCommanderUid
         => /\ denyCommandRequestResult(u, r) = "ok"
            /\ ~ENABLED
                 ( /\ denyCommandRequest(u, r)
                   /\ ~ /\ commandRequests' =
                             [commandRequests EXCEPT ![r].status = "denied"]
                        /\ incidents' = incidents )
    /\ u # commandRequests[r].currentCommanderUid
         => /\ denyCommandRequestResult(u, r) = "permission-denied"
            /\ ~ENABLED ( /\ denyCommandRequest(u, r)
                          /\ <<commandRequests, incidents>>'
                               # <<commandRequests, incidents>> )

\* C20 witness: a request was denied while its incident is still commanded
\* by the commander recorded in the request, and the requester's own deny
\* call is refused.
DenyByRecordedCommanderWitness ==
  \E r \in DOMAIN commandRequests :
    LET req == commandRequests[r]
    IN /\ req.status = "denied"
       /\ incidents[req.incidentId].commanderUid = req.currentCommanderUid
       /\ incidents[req.incidentId].commanderSessionId # NullId
       /\ denyCommandRequestResult(req.requesterUid, r) = "permission-denied"

\* C21: no request, approve or deny step turns a commanded incident into an
\* uncommanded one, and every granted approve step takes the incident
\* directly from being commanded by the approver to being commanded by the
\* requester.
HandoffNeverUncommanded ==
  [][/\ \A u \in Users : \A r \in DOMAIN commandRequests :
          (approveCommandRequestResult(u, r) = "ok" /\ approveCommandRequest(u, r))
          => LET i == commandRequests[r].incidentId
             IN /\ incidents[i].commanderUid = u
                /\ incidents'[i].commanderUid = commandRequests[r].requesterUid
                /\ incidents'[i].commanderUid # NoUser
     /\ ( \/ \E u \in Users : \E i \in DOMAIN incidents : \E s \in IssuedTo(u) :
               requestIncidentCommand(u, i, s)
          \/ \E u \in Users : \E r \in DOMAIN commandRequests :
               denyCommandRequest(u, r) \/ approveCommandRequest(u, r) )
        => \A i \in DOMAIN incidents :
             incidents[i].commanderUid # NoUser
               => incidents'[i].commanderUid # NoUser]_vars

\* C22: a run of the hourly sweep clears both commander fields of every
\* Active incident whose commanderSessionId is a session inactive for more
\* than two hours and deletes exactly those sessions; every other session
\* and incident is unchanged; and every user whose createSession was
\* refused before the run, and in whose tenant the run deleted a session,
\* is granted a session after it.
HourlySweepReleases ==
  [][cleanupstalecommandsessions
     => LET stale == {s \in DOMAIN sessions :
                        now - sessions[s].lastActive > twoHours}
            locked == {i \in DOMAIN incidents :
                         /\ incidents[i].status = "Active"
                         /\ incidents[i].commanderSessionId \in stale}
            freed == {incidents[i].commanderSessionId : i \in locked}
        IN /\ DOMAIN incidents' = DOMAIN incidents
           /\ \A i \in locked :
                incidents'[i] = [incidents[i] EXCEPT !.commanderUid = NoUser,
                                                     !.commanderSessionId = NullId]
           /\ \A i \in DOMAIN incidents \ locked : incidents'[i] = incidents[i]
           /\ DOMAIN sessions' = DOMAIN sessions \ freed
           /\ \A s \in DOMAIN sessions' : sessions'[s] = sessions[s]
           /\ \A u \in Users :
                ( /\ createSessionResult(u) = "permission-denied"
                  /\ \E s \in freed : sessions[s].customerId = UserCustomer[u] )
                => createSessionResult(u)' = "ok"]_vars

\* C23: straight after a run of the hourly sweep a second run has nothing
\* to write: no Active incident is left whose commanderSessionId is an
\* existing session inactive for more than two hours, and a sweep step from
\* the state after the first run does not exist.
HourlySweepIdempotent ==
  [][cleanupstalecommandsessions
     => /\ ~\E i \in DOMAIN incidents' :
              /\ incidents'[i].status = "Active"
              /\ incidents'[i].commanderSessionId \in DOMAIN sessions'
              /\ now' - sessions'[incidents'[i].commanderSessionId].lastActive
                   > twoHours
        /\ (StaleSessions = {} \/ LockedIncidents = {})']_vars

\* C23 witness: the sweep has released an incident and deleted its session,
\* and another session that is stale but commands nothing is still there
\* for a second run to find.
HourlySweepIdempotentWitness ==
  /\ \E i \in DOMAIN incidents : /\ incidents[i].status = "Active"
                                 /\ incidents[i].commanderUid = NoUser
  /\ \E s \in 1..Len(issued) : s \notin DOMAIN sessions
  /\ StaleSessions # {}

SessionValidatedEverywhere ==
  \A u \in Users : \A s \in IssuedTo(u) :
    ~(s \in DOMAIN sessions /\ sessions[s].uid = u)
    => /\ startNewIncidentResult(u, s) # "ok"
       /\ \A i \in DOMAIN incidents :
            /\ takeIncidentCommandResult(u, i, s) # "ok"
            /\ reestablishCommandResult(u, i, s) # "ok"
            /\ requestIncidentCommandResult(u, i, s) # "ok"

\* C26: sessionHeartbeat answers not-found, and no step of the call changes
\* anything, when the session is missing or owned by another user;
\* otherwise it answers ok and every step of the call sets that session's
\* lastActive to the current time and changes nothing else.
HeartbeatTouchesLastActiveOnly ==
  \A u \in Users : \A s \in 1..Len(issued) :
    LET mine == s \in DOMAIN sessions /\ sessions[s].uid = u
    IN /\ ~mine => /\ sessionHeartbeatResult(u, s) = "not-found"
                   /\ ~ENABLED (sessionHeartbeat(u, s) /\ vars' # vars)
       /\ mine => /\ sessionHeartbeatResult(u, s) = "ok"
                  /\ ~ENABLED
                       ( /\ sessionHeartbeat(u, s)
                         /\ ~ /\ sessions' =
                                   [sessions EXCEPT
                                      ![s] = [uid |-> sessions[s].uid,
                                              customerId |-> sessions[s].customerId,
                                              lastActive |-> Timeline[clock]]]
                              /\ UNCHANGED <<incidents, commandRequests,
                                             issued, clock, incidentLog, calls, client>> )

\* C26 witness: a session whose lastActive was moved by a heartbeat to a
\* later instant than its creation could explain (it is newer than a
\* session created after it), while another user's heartbeat on it is
\* answered not-found.
HeartbeatTouchesLastActiveOnlyWitness ==
  \E a, b \in DOMAIN sessions : \E u \in Users :
    /\ a < b
    /\ sessions[a].lastActive > sessions[b].lastActive
    /\ u # sessions[a].uid
    /\ sessionHeartbeatResult(u, a) = "not-found"

\* C27: every endSession step deletes exactly the presented session, and
\* only if the caller owns it; when the session is gone or owned by another
\* user the call has no step that changes anything; after a deleting step
\* the session is gone, so a second call changes nothing.
EndSessionIdempotent ==
  \A u \in Users : \A s \in 1..Len(issued) :
    LET mine == s \in DOMAIN sessions /\ sessions[s].uid = u
    IN /\ ~mine => ~ENABLED (endSession(u, s) /\ vars' # vars)
       /\ mine => ~ENABLED
                    ( /\ endSession(u, s)
                      /\ ~ /\ DOMAIN sessions' = DOMAIN sessions \ {s}
                           /\ \A o \in DOMAIN sessions' : sessions'[o] = sessions[o]
                           /\ UNCHANGED <<incidents, commandRequests,
                                          issued, clock, incidentLog, calls, client>> )

\* C27 witness: a session was handed out and is gone while its tenant has
\* neither been swept nor refilled (the clock has not moved and no later
\* session exists), and another user's session is still there.
EndSessionIdempotentWitness ==
  \E s \in 1..Len(issued) : \E o \in DOMAIN sessions :
    /\ s \notin DOMAIN sessions
    /\ clock = 1
    /\ Len(issued) = 2
    /\ sessions[o].uid # issued[s]
    /\ DOMAIN incidents = {}

\* C28: checkSessionStatus answers ok when the caller commands no incident
\* or when the calling session is the recorded commanderSessionId of an
\* incident the caller commands; when the caller commands an incident and
\* the calling session is recorded on none, it answers locked_out to a
\* Basic user and view_only_recommended to any other.
SessionStatusByTier ==
  \A u \in Users : \A s \in IssuedTo(u) :
    LET commanded == {i \in DOMAIN incidents : incidents[i].commanderUid = u}
        here == {i \in commanded : incidents[i].commanderSessionId = s}
    IN /\ commanded = {} => checkSessionStatusResult(u, s) = {"ok"}
       /\ here # {} => checkSessionStatusResult(u, s) = {"ok"}
       /\ (commanded # {} /\ here = {})
            => checkSessionStatusResult(u, s)
                 = {IF UserPlan[u] = "Basic" THEN "locked_out"
                                             ELSE "view_only_recommended"}

\* C29: every step that adds a COMMAND_APPROVED or COMMAND_REESTABLISHED
\* entry to the incident log also commits the incident update the entry
\* reports (and adds one entry only): after it the logged incident exists
\* and, for an approval, a request for it has just become approved.
LogOnlyWithCommittedUpdate ==
  [][LET n == Len(incidentLog)
         e == incidentLog'[n + 1]
     IN Len(incidentLog') > n
        => /\ Len(incidentLog') = n + 1
           /\ e.eventType \in {"COMMAND_APPROVED", "COMMAND_REESTABLISHED"}
                => /\ e.incidentId \in DOMAIN incidents'
                   /\ incidents'[e.incidentId].commanderUid # NoUser
           /\ e.eventType = "COMMAND_APPROVED"
                => \E r \in DOMAIN commandRequests :
                     /\ commandRequests[r].incidentId = e.incidentId
                     /\ commandRequests'[r].status = "approved"
                     /\ incidents'[e.incidentId].commanderUid
                          = commandRequests[r].requesterUid]_vars

\* C30: a pending request stays in place and stays pending across every
\* step that is not approveCommandRequest or denyCommandRequest on that
\* request, and after every step each requestIncidentCommand by a
\* non-commander on a commanded incident with a pending request is answered
\* with already-exists, whoever commands the incident by then.
PendingUntilDecided ==
  [][/\ \A r \in DOMAIN commandRequests :
          commandRequests[r].status = "pending"
          => /\ r \in DOMAIN commandRequests'
             /\ commandRequests'[r].status # "pending"
                  => \E u \in HandoffUsers :
                       \/ approveCommandRequest(u, r)
                       \/ denyCommandRequest(u, r)
     /\ \A r \in DOMAIN commandRequests', i \in DOMAIN incidents' :
          ( /\ commandRequests'[r].status = "pending"
            /\ commandRequests'[r].incidentId = i
            /\ incidents'[i].commanderUid # NoUser )
          => \A u \in HandoffUsers : \A s \in IssuedTo(u)' :
               incidents'[i].commanderUid # u
               => requestIncidentCommandResult(u, i, s)' = "already-exists"]_vars

\* C30 witness: a request is still pending although the incident is by now
\* commanded by someone other than the commander the request recorded, the
\* incident's commanding session has been deleted, and a further request by
\* a non-commander is answered with already-exists.
PendingUntilDecidedWitness ==
  \E r \in DOMAIN commandRequests :
    LET i == commandRequests[r].incidentId
    IN /\ commandRequests[r].status = "pending"
       /\ i \in DOMAIN incidents
       /\ incidents[i].commanderUid # NoUser
       /\ incidents[i].commanderUid # commandRequests[r].currentCommanderUid
       /\ incidents[i].commanderSessionId \notin DOMAIN sessions
       /\ \E u \in HandoffUsers : \E s \in IssuedTo(u) :
            /\ u # incidents[i].commanderUid
            /\ requestIncidentCommandResult(u, i, s) = "already-exists"

\* C31: the license check and the creation of startNewIncident behave as
\* one step: whenever an invocation adds its incident, the license check
\* would still pass at that instant, and after the add the tenant has no
\* more commanded Active incidents than command licenses.
StartNewIncidentAtomic ==
  [][\A c \in DOMAIN calls :
       startNewIncidentAdd(c)
       => /\ ~StartLicenseDenied(calls[c].uid)
          /\ Cardinality(CommandingIncidents(incidents',
                                             UserCustomer[calls[c].uid]))
               <= maxCommandLicenses(UserCustomer[calls[c].uid])]_vars

\* C32: whenever a createSession invocation that found an open slot adds
\* its session, the tenant then holds at most maxTotalSessions sessions.
CreateSessionCountAtomic ==
  [][\A c \in DOMAIN calls :
       (createSessionAdd(c) /\ calls[c].openSlot)
       => Cardinality(TenantSessions(sessions', UserCustomer[calls[c].uid]))
            <= maxTotalSessions(UserCustomer[calls[c].uid])]_vars

\* C33: with overlapping requestIncidentCommand invocations, no incident
\* ever has more than one pending command request.
AtMostOnePendingRequest ==
  \A i \in DOMAIN incidents :
    Cardinality(PendingRequests(commandRequests, i)) <= 1

\* C34: no heartbeat timer is running while the page is hidden, and at most
\* one heartbeat timer is running at any time.
HeartbeatTimerOnlyWhileVisible ==
  /\ ~client.visible => client.timers = {}
  /\ Cardinality(client.timers) <= 1

\* C35: once the clients have stopped, every Active incident that is still
\* commanded is eventually released by the reapers: its commanderUid and
\* commanderSessionId become null.
AbandonedLockReclaimed ==
  \A i \in 1..MaxIncidents :
    ( /\ ~ClientsRunning
      /\ i \in DOMAIN incidents
      /\ incidents[i].status = "Active"
      /\ incidents[i].commanderUid # NoUser )
    ~> ( /\ i \in DOMAIN incidents
         /\ incidents[i].commanderUid = NoUser
         /\ incidents[i].commanderSessionId = NullId )

\* C36: whenever a page has selected an incident whose recorded commander
\* is the page's user while the recorded commanding session is not the
\* page's session, the panel shows an enabled Re-establish Command button.
ReestablishOfferedOnNewSession ==
  [][\A u \in HandoffUsers : \A s \in IssuedTo(u), i \in DOMAIN incidents :
       ( /\ handleActiveIncidentSelect(u, s, i)
         /\ incidents[i].commanderUid = u
         /\ incidents[i].commanderSessionId # s )
       => /\ client'.board.textContent = "Re-establish Command"
          /\ ~client'.board.disabled]_vars

\* C37: every Closed incident has commanderUid and commanderSessionId null.
ClosedIncidentHasNoCommander ==
  \A i \in DOMAIN incidents :
    incidents[i].status = "Closed"
    => /\ incidents[i].commanderUid = NoUser
       /\ incidents[i].commanderSessionId = NullId

\* C38: a step that changes an incident's commanderUid from one user to a
\* different user is a granted approveCommandRequest for a request on that
\* incident.
CommandPassesOnlyByApproval ==
  [][\A i \in DOMAIN incidents :
       ( /\ i \in DOMAIN incidents'
         /\ incidents[i].commanderUid # NoUser
         /\ incidents'[i].commanderUid # NoUser
         /\ incidents'[i].commanderUid # incidents[i].commanderUid )
       => \E u \in HandoffUsers, r \in DOMAIN commandRequests :
            /\ commandRequests[r].incidentId = i
            /\ approveCommandRequestResult(u, r) = "ok"
            /\ approveCommandRequest(u, r)]_vars

\* C39: whenever approveCommandRequest is granted, the incident's
\* commanderUid just before the transfer is the request's
\* currentCommanderUid, that is, the approver.
ApproverCommandsAtTransfer ==
  [][\A u \in HandoffUsers, r \in DOMAIN commandRequests :
       ( /\ approveCommandRequestResult(u, r) = "ok"
         /\ approveCommandRequest(u, r)
         /\ commandRequests'[r].status # commandRequests[r].status )
       => /\ incidents[commandRequests[r].incidentId].commanderUid
               = commandRequests[r].currentCommanderUid
          /\ incidents[commandRequests[r].incidentId].commanderUid = u]_vars

\* C40: when the hourly sweep commits its batch, every session it deletes
\* has been inactive for more than two hours at that instant, and no
\* incident it releases is commanded at that instant from an existing
\* session that was active within the last two hours.
SweepSparesLiveCommander ==
  [][\A c \in DOMAIN calls :
       sweepCommit(c)
       => /\ \A s \in DOMAIN sessions \ DOMAIN sessions' : s \in StaleSessions
          /\ \A i \in DOMAIN incidents :
               incidents'[i].commanderUid # incidents[i].commanderUid
               => ~ ( /\ incidents[i].commanderSessionId \in DOMAIN sessions
                      /\ incidents[i].commanderSessionId \notin StaleSessions )]_vars

=============================================================================
